---- MODULE Spec2Model ----
(***************************************************************************)
(* State-machine model of the stellalpha_vault program: GlobalConfig,      *)
(* UserVault, TraderState (the "Allocation"), the SPL token ledger the     *)
(* instructions move funds on, and the instructions of                     *)
(* programs/stellalpha_vault/src/instructions/*.rs.  Every instruction is  *)
(* one action; a failing instruction leaves the chain state unchanged and  *)
(* records its error in `last`.                                            *)
(***************************************************************************)
EXTENDS Integers, FiniteSets, Sequences, TLC

VARIABLES cfg, vault, ts, bal, open, last, settledInLife, swaps

vars == <<cfg, vault, ts, bal, open, last, settledInLife, swaps>>

-----------------------------------------------------------------------------
(* Bounds of the model *)

\* funds the owner's wallet holds at the start
InitialFunds == 1000
\* largest balance the external executor may push an account to
MaxBalance == 2000
\* swaps that succeed in one behaviour: once that many have, no further
\* execute_trader_swap call is explored
MaxSwaps == 1
\* lamports the owner's wallet holds at the start
InitialLamports == 1000
\* longest payload tail of an instruction's data
MaxPayloadLen == 2

(* Program constants *)

\* initialize_global_config: platform_fee_bps = 10
DefaultPlatformFeeBps == 10
\* initialize_global_config: performance_fee_bps = 2000
DefaultPerformanceFeeBps == 2000
\* basis-point denominator of the fee computation
BpsDenominator == 10000
\* execute_swap (legacy): amount_in.checked_mul(10), "10 bps"
LegacyFeeBps == 10
\* UserVault::INIT_SPACE reserves room for 10 allowed mints
MaxAllowedMints == 10
\* execute_swap: header_len = 8 + 8 + 8
HeaderLen == 24

-----------------------------------------------------------------------------
(* Identities, mints and token accounts *)

Owner == "owner"
Authority == "authority"
Admin == "admin"
Signers == {Owner, Authority, Admin}

\* PDA [b"user_vault_v1", owner]
VaultPDA == "vault_pda"
\* PDA [b"trader_state", owner, trader]
TraderPDA == "trader_pda"
\* PLATFORM_FEE_WALLET, the owner the legacy swap requires of its fee account
PlatformFeeWallet == "platform_fee_wallet"

BaseMint == "BASE"
AltMint == "ALT"
Mints == {BaseMint, AltMint}
\* mints a caller passes to add_allowed_mint and remove_allowed_mint
MintArgs == Mints

\* token accounts: the vault's ATAs, the TraderState's base and secondary
\* holdings, the owner's wallet, the admin's fee accounts, the platform fee
\* wallet's account, accounts of the authority, and a second base-asset
\* account of the TraderState that is not its associated account
TokenAccounts ==
  {"vBase", "vAlt", "tBase", "tAlt", "oBase", "feeBase", "feeAlt", "pfBase",
   "aBase", "aAlt", "tBase2"}

\* token accounts that are not the associated account of their owner and mint
PlainAccounts == {"tBase2"}

AccOwner ==
  [a \in TokenAccounts |->
     CASE a \in {"vBase", "vAlt"} -> VaultPDA
       [] a \in {"tBase", "tAlt", "tBase2"} -> TraderPDA
       [] a = "oBase" -> Owner
       [] a \in {"feeBase", "feeAlt"} -> Admin
       [] a = "pfBase" -> PlatformFeeWallet
       [] OTHER -> Authority]

AccMint ==
  [a \in TokenAccounts |->
     IF a \in {"vAlt", "tAlt", "feeAlt", "aAlt"} THEN AltMint ELSE BaseMint]

\* the associated token account of (wallet, mint)
Ata(wallet, mint) ==
  CHOOSE a \in TokenAccounts \ PlainAccounts :
    AccOwner[a] = wallet /\ AccMint[a] = mint

\* amounts the owner deposits, withdraws and funds a TraderState with
Amounts == {InitialFunds}
\* amount_in values the delegated authority declares
SwapAmounts == {1, InitialFunds}

-----------------------------------------------------------------------------
(* Records *)

NoConfig ==
  [exists |-> FALSE, admin |-> "none", platform_fee_bps |-> 0,
   performance_fee_bps |-> 0, legacy_trading_enabled |-> FALSE]

NoVault ==
  [exists |-> FALSE, owner |-> "none", authority |-> "none", is_paused |-> FALSE,
   base_mint |-> "none", allowed_mints |-> <<>>, lamports |-> 0]

NoTrader ==
  [exists |-> FALSE, owner |-> "none", vault |-> "none",
   current_value |-> 0, high_water_mark |-> 0, cumulative_profit |-> 0,
   is_paused |-> FALSE, is_settled |-> FALSE, is_initialized |-> FALSE,
   is_syncing |-> FALSE]

\* the record of the last instruction: what was called and how it ended
Call(op, signer, err) ==
  [op |-> op, signer |-> signer, err |-> err, stage |-> "none",
   inAcc |-> "none", outAcc |-> "none", feeAcc |-> "none",
   amount_in |-> 0, min_amount_out |-> 0, fee |-> 0, swap_amount |-> 0,
   amount_spent |-> 0, amount_received |-> 0, mint |-> "none"]

Init ==
  /\ cfg = NoConfig
  /\ vault = NoVault
  /\ ts = NoTrader
  /\ bal = [a \in TokenAccounts |-> IF a = "oBase" THEN InitialFunds ELSE 0]
  /\ open = {"oBase", "feeBase", "feeAlt", "pfBase", "aBase", "aAlt"}
  /\ last = Call("init", "none", "Ok")
  /\ settledInLife = FALSE
  /\ swaps = 0

\* An instruction that returned Err changed nothing but `last`: the behaviours
\* that continue from its state are the ones that continue from the state
\* before it, and they are explored from there.
Ready == last.err = "Ok"

\* an instruction that returned Err: the runtime discards every change
Fail(op, signer, err) ==
  /\ last' = Call(op, signer, err)
  /\ UNCHANGED <<cfg, vault, ts, bal, open, settledInLife, swaps>>

-----------------------------------------------------------------------------
(* SPL token program *)

\* a token::transfer that does not look at the source's balance
CanTransferAlways(l, from, amt) == TRUE

\* token::transfer can move amt out of account from
CanTransfer(l, from, amt) == l[from] >= amt

\* ledger after token::transfer(from, to, amt)
Transfer(l, from, to, amt) ==
  IF from = to THEN l
  ELSE [l EXCEPT ![from] = @ - amt, ![to] = @ + amt]

-----------------------------------------------------------------------------
(* GlobalConfig and UserVault *)

\* initialize_global_config: `init` of the singleton PDA [b"global_config"]
InitializeGlobalConfig(signer) ==
  Ready /\
  IF cfg.exists THEN Fail("initialize_global_config", signer, "AlreadyInUse")
  ELSE /\ cfg' = [exists |-> TRUE, admin |-> signer,
                  platform_fee_bps |-> DefaultPlatformFeeBps,
                  performance_fee_bps |-> DefaultPerformanceFeeBps,
                  legacy_trading_enabled |-> FALSE]
       /\ last' = Call("initialize_global_config", signer, "Ok")
       /\ UNCHANGED <<vault, ts, bal, open, settledInLife, swaps>>

\* initialize_vault: `init` of the PDA [b"user_vault_v1", owner]; the model
\* follows the vault of Owner, created with the delegated authority Authority
InitializeVault(signer) ==
  Ready /\
  IF vault.exists THEN Fail("initialize_vault", signer, "AlreadyInUse")
  ELSE /\ vault' = [exists |-> TRUE, owner |-> signer, authority |-> Authority,
                    is_paused |-> FALSE, base_mint |-> BaseMint,
                    allowed_mints |-> <<>>, lamports |-> 0]
       /\ last' = Call("initialize_vault", signer, "Ok")
       /\ UNCHANGED <<cfg, ts, bal, open, settledInLife, swaps>>

\* init_vault_ata: `init` of the vault's ATA for the mint passed
InitVaultAta(signer, mint) ==
  Ready /\
  IF ~vault.exists THEN Fail("init_vault_ata", signer, "AccountNotInitialized")
  ELSE IF vault.owner # signer THEN Fail("init_vault_ata", signer, "Unauthorized")
  ELSE IF Ata(VaultPDA, mint) \in open
  THEN Fail("init_vault_ata", signer, "AlreadyInUse")
  ELSE /\ open' = open \cup {Ata(VaultPDA, mint)}
       /\ last' = Call("init_vault_ata", signer, "Ok")
       /\ UNCHANGED <<cfg, vault, ts, bal, settledInLife, swaps>>

\* deposit_token: owner wallet -> vault ATA
DepositToken(signer, amount) ==
  Ready /\
  IF ~vault.exists \/ "vBase" \notin open
  THEN Fail("deposit_token", signer, "AccountNotInitialized")
  ELSE IF vault.owner # signer THEN Fail("deposit_token", signer, "Unauthorized")
  ELSE IF ~CanTransfer(bal, "oBase", amount)
  THEN Fail("deposit_token", signer, "TokenInsufficientFunds")
  ELSE /\ bal' = Transfer(bal, "oBase", "vBase", amount)
       /\ last' = [Call("deposit_token", signer, "Ok") EXCEPT !.amount_in = amount]
       /\ UNCHANGED <<cfg, vault, ts, open, settledInLife, swaps>>

\* withdraw_token: vault ATA -> owner wallet, signed by the vault PDA
WithdrawToken(signer, amount) ==
  Ready /\
  IF ~vault.exists \/ "vBase" \notin open
  THEN Fail("withdraw_token", signer, "AccountNotInitialized")
  ELSE IF vault.owner # signer THEN Fail("withdraw_token", signer, "Unauthorized")
  ELSE IF ~CanTransfer(bal, "vBase", amount)
  THEN Fail("withdraw_token", signer, "TokenInsufficientFunds")
  ELSE /\ bal' = Transfer(bal, "vBase", "oBase", amount)
       /\ last' = [Call("withdraw_token", signer, "Ok") EXCEPT !.amount_in = amount]
       /\ UNCHANGED <<cfg, vault, ts, open, settledInLife, swaps>>

\* Lamports: vault.lamports is what the vault account holds above its
\* rent-exempt minimum; the owner's wallet holds the rest of InitialLamports.
OwnerLamports == InitialLamports - vault.lamports

\* what stops a lamport movement the accounts cannot cover: the system
\* program's transfer, the checked arithmetic of the build, or the runtime's
\* balance and rent checks at the end of the instruction
LamportFailures ==
  {"InsufficientLamports", "Panic", "UnbalancedInstruction", "InsufficientFundsForRent"}

\* deposit_sol: system transfer owner -> vault account
DepositSol(signer, amount) ==
  Ready /\
  IF ~vault.exists THEN Fail("deposit_sol", signer, "AccountNotInitialized")
  ELSE IF vault.owner # signer THEN Fail("deposit_sol", signer, "Unauthorized")
  ELSE IF amount > OwnerLamports THEN Fail("deposit_sol", signer, "InsufficientLamports")
  ELSE /\ vault' = [vault EXCEPT !.lamports = @ + amount]
       /\ last' = [Call("deposit_sol", signer, "Ok") EXCEPT !.amount_in = amount]
       /\ UNCHANGED <<cfg, ts, bal, open, settledInLife, swaps>>

\* withdraw_sol: the vault account's lamports are debited directly and
\* credited to the owner
WithdrawSol(signer, amount) ==
  Ready /\
  IF ~vault.exists THEN Fail("withdraw_sol", signer, "AccountNotInitialized")
  ELSE IF vault.owner # signer THEN Fail("withdraw_sol", signer, "Unauthorized")
  ELSE IF amount > vault.lamports
  THEN \E err \in LamportFailures \ {"InsufficientLamports"} :
         Fail("withdraw_sol", signer, err)
  ELSE /\ vault' = [vault EXCEPT !.lamports = @ - amount]
       /\ last' = [Call("withdraw_sol", signer, "Ok") EXCEPT !.amount_in = amount]
       /\ UNCHANGED <<cfg, ts, bal, open, settledInLife, swaps>>

\* close_vault_ata: close an empty token account of the vault
CloseVaultAtaOutcome(signer, acct) ==
  IF ~vault.exists \/ acct \notin open THEN "AccountNotInitialized"
  ELSE IF vault.owner # signer THEN "Unauthorized"
  ELSE IF AccOwner[acct] # VaultPDA THEN "ConstraintTokenOwner"
  ELSE IF bal[acct] # 0 THEN "NonZeroBalance"
  ELSE "Ok"

CloseVaultAta(signer, acct) ==
  Ready /\
  LET err == CloseVaultAtaOutcome(signer, acct)
  IN  IF err # "Ok"
      THEN Fail("close_vault_ata", signer, err)
      ELSE /\ open' = open \ {acct}
           /\ last' = [Call("close_vault_ata", signer, "Ok") EXCEPT !.inAcc = acct]
           /\ UNCHANGED <<cfg, vault, ts, bal, settledInLife, swaps>>

-----------------------------------------------------------------------------
(* TraderState lifecycle *)

\* a create_trader_state whose funding transfer does not look at the vault's
\* balance
CreateTraderStateNoFundsCheck(signer, amount) ==
  Ready /\
  IF ~vault.exists \/ "vBase" \notin open
  THEN Fail("create_trader_state", signer, "AccountNotInitialized")
  ELSE IF vault.owner # signer THEN Fail("create_trader_state", signer, "Unauthorized")
  ELSE IF ts.exists \/ "tBase" \in open
  THEN Fail("create_trader_state", signer, "AlreadyInUse")
  ELSE /\ ts' = [exists |-> TRUE, owner |-> signer, vault |-> VaultPDA,
                 current_value |-> amount, high_water_mark |-> amount,
                 cumulative_profit |-> 0, is_paused |-> FALSE,
                 is_settled |-> FALSE, is_initialized |-> FALSE,
                 is_syncing |-> FALSE]
       /\ open' = open \cup {"tBase"}
       /\ bal' = Transfer(bal, "vBase", "tBase", amount)
       /\ settledInLife' = FALSE
       /\ last' = [Call("create_trader_state", signer, "Ok") EXCEPT !.amount_in = amount]
       /\ UNCHANGED <<cfg, vault, swaps>>

\* create_trader_state: `init` of the TraderState PDA and of its base ATA,
\* then the funding transfer vault ATA -> TraderState ATA
CreateTraderState(signer, amount) ==
  Ready /\
  IF ~vault.exists \/ "vBase" \notin open
  THEN Fail("create_trader_state", signer, "AccountNotInitialized")
  ELSE IF vault.owner # signer THEN Fail("create_trader_state", signer, "Unauthorized")
  ELSE IF ts.exists \/ "tBase" \in open
  THEN Fail("create_trader_state", signer, "AlreadyInUse")
  ELSE IF ~CanTransfer(bal, "vBase", amount)
  THEN Fail("create_trader_state", signer, "TokenInsufficientFunds")
  ELSE /\ ts' = [exists |-> TRUE, owner |-> signer, vault |-> VaultPDA,
                 current_value |-> amount, high_water_mark |-> amount,
                 cumulative_profit |-> 0, is_paused |-> FALSE,
                 is_settled |-> FALSE, is_initialized |-> FALSE,
                 is_syncing |-> FALSE]
       /\ open' = open \cup {"tBase"}
       /\ bal' = Transfer(bal, "vBase", "tBase", amount)
       /\ settledInLife' = FALSE
       /\ last' = [Call("create_trader_state", signer, "Ok") EXCEPT !.amount_in = amount]
       /\ UNCHANGED <<cfg, vault, swaps>>

\* create_trader_ata: init_if_needed of a TraderState-owned ATA
CreateTraderAta(signer, mint) ==
  Ready /\
  IF ~ts.exists THEN Fail("create_trader_ata", signer, "AccountNotInitialized")
  ELSE IF ts.owner # signer THEN Fail("create_trader_ata", signer, "Unauthorized")
  ELSE /\ open' = open \cup {Ata(TraderPDA, mint)}
       /\ last' = Call("create_trader_ata", signer, "Ok")
       /\ UNCHANGED <<cfg, vault, ts, bal, settledInLife, swaps>>

\* a start_sync that does not look at is_initialized
StartSyncNoInitializedCheck(signer) ==
  Ready /\
  IF ~ts.exists \/ ~vault.exists THEN Fail("start_sync", signer, "AccountNotInitialized")
  ELSE IF vault.authority # signer THEN Fail("start_sync", signer, "Unauthorized")
  ELSE /\ ts' = [ts EXCEPT !.is_syncing = TRUE]
       /\ last' = Call("start_sync", signer, "Ok")
       /\ UNCHANGED <<cfg, vault, bal, open, settledInLife, swaps>>

\* start_sync: the delegated authority opens the sync phase
StartSync(signer) ==
  Ready /\
  IF ~ts.exists \/ ~vault.exists THEN Fail("start_sync", signer, "AccountNotInitialized")
  ELSE IF vault.authority # signer THEN Fail("start_sync", signer, "Unauthorized")
  ELSE IF ts.is_initialized THEN Fail("start_sync", signer, "AlreadyInitialized")
  ELSE /\ ts' = [ts EXCEPT !.is_syncing = TRUE]
       /\ last' = Call("start_sync", signer, "Ok")
       /\ UNCHANGED <<cfg, vault, bal, open, settledInLife, swaps>>

\* finish_sync: the delegated authority closes the sync phase
FinishSync(signer) ==
  Ready /\
  IF ~ts.exists \/ ~vault.exists THEN Fail("finish_sync", signer, "AccountNotInitialized")
  ELSE IF vault.authority # signer THEN Fail("finish_sync", signer, "Unauthorized")
  ELSE IF ts.is_initialized THEN Fail("finish_sync", signer, "AlreadyInitialized")
  ELSE IF ~ts.is_syncing THEN Fail("finish_sync", signer, "TraderNotInitialized")
  ELSE /\ ts' = [ts EXCEPT !.is_syncing = FALSE, !.is_initialized = TRUE]
       /\ last' = Call("finish_sync", signer, "Ok")
       /\ UNCHANGED <<cfg, vault, bal, open, settledInLife, swaps>>

\* a mark_trader_initialized without the one-time check
MarkTraderInitializedRepeatable(signer) ==
  Ready /\
  IF ~ts.exists \/ ~vault.exists
  THEN Fail("mark_trader_initialized", signer, "AccountNotInitialized")
  ELSE IF ~(signer = vault.owner \/ signer = vault.authority)
  THEN Fail("mark_trader_initialized", signer, "Unauthorized")
  ELSE /\ ts' = [ts EXCEPT !.is_initialized = TRUE]
       /\ last' = Call("mark_trader_initialized", signer, "Ok")
       /\ UNCHANGED <<cfg, vault, bal, open, settledInLife, swaps>>

\* mark_trader_initialized: owner or delegated authority, one time
MarkTraderInitialized(signer) ==
  Ready /\
  IF ~ts.exists \/ ~vault.exists
  THEN Fail("mark_trader_initialized", signer, "AccountNotInitialized")
  ELSE IF ~(signer = vault.owner \/ signer = vault.authority)
  THEN Fail("mark_trader_initialized", signer, "Unauthorized")
  ELSE IF ts.is_initialized
  THEN Fail("mark_trader_initialized", signer, "AlreadyInitialized")
  ELSE /\ ts' = [ts EXCEPT !.is_initialized = TRUE]
       /\ last' = Call("mark_trader_initialized", signer, "Ok")
       /\ UNCHANGED <<cfg, vault, bal, open, settledInLife, swaps>>

\* a pause_trader_state that only the vault's delegated authority may call
PauseTraderStateAuthorityOnly(signer) ==
  Ready /\
  IF ~ts.exists THEN Fail("pause_trader_state", signer, "AccountNotInitialized")
  ELSE IF vault.authority # signer THEN Fail("pause_trader_state", signer, "Unauthorized")
  ELSE /\ ts' = [ts EXCEPT !.is_paused = TRUE]
       /\ last' = Call("pause_trader_state", signer, "Ok")
       /\ UNCHANGED <<cfg, vault, bal, open, settledInLife, swaps>>

\* pause_trader_state (UpdateTraderState: has_one = owner)
PauseTraderState(signer) ==
  Ready /\
  IF ~ts.exists THEN Fail("pause_trader_state", signer, "AccountNotInitialized")
  ELSE IF ts.owner # signer THEN Fail("pause_trader_state", signer, "Unauthorized")
  ELSE /\ ts' = [ts EXCEPT !.is_paused = TRUE]
       /\ last' = Call("pause_trader_state", signer, "Ok")
       /\ UNCHANGED <<cfg, vault, bal, open, settledInLife, swaps>>

\* a resume_trader_state that also withdraws the settlement
ResumeTraderStateUnsettles(signer) ==
  Ready /\
  IF ~ts.exists THEN Fail("resume_trader_state", signer, "AccountNotInitialized")
  ELSE IF ts.owner # signer THEN Fail("resume_trader_state", signer, "Unauthorized")
  ELSE /\ ts' = [ts EXCEPT !.is_paused = FALSE, !.is_settled = FALSE]
       /\ last' = Call("resume_trader_state", signer, "Ok")
       /\ UNCHANGED <<cfg, vault, bal, open, settledInLife, swaps>>

\* resume_trader_state (UpdateTraderState: has_one = owner)
ResumeTraderState(signer) ==
  Ready /\
  IF ~ts.exists THEN Fail("resume_trader_state", signer, "AccountNotInitialized")
  ELSE IF ts.owner # signer THEN Fail("resume_trader_state", signer, "Unauthorized")
  ELSE /\ ts' = [ts EXCEPT !.is_paused = FALSE]
       /\ last' = Call("resume_trader_state", signer, "Ok")
       /\ UNCHANGED <<cfg, vault, bal, open, settledInLife, swaps>>

-----------------------------------------------------------------------------
(* execute_trader_swap *)

\* a platform fee at half the rate
FeeHalfRate(amount_in, fee_bps) ==
  (amount_in * (fee_bps \div 2)) \div BpsDenominator

\* a platform fee that rounds up
FeeRoundedUp(amount_in, fee_bps) ==
  (amount_in * fee_bps + BpsDenominator - 1) \div BpsDenominator

\* platform fee: (amount_in as u128 * fee_bps) / 10000, floor
Fee(amount_in, fee_bps) == (amount_in * fee_bps) \div BpsDenominator

\* Behaviours of the executor program the caller names.  "memo" is the devnet
\* mock; "ext" is any other program, invoked with the TraderState PDA as
\* signer: it may debit every account the PDA owns (spend from the input,
\* outDebit from the output, drain from any other PDA-owned account), send
\* what it took to its pool or to an account of the caller, credit the input
\* (spend < 0) or the output (recv), or return an error (fail).
Ext(spend, recv, dest, outDebit, drain) ==
  [kind |-> "ext", fail |-> FALSE, spend |-> spend, recv |-> recv, dest |-> dest,
   outDebit |-> outDebit, drain |-> drain]

Memo == [kind |-> "memo", fail |-> FALSE, spend |-> 0, recv |-> 0, dest |-> "pool",
         outDebit |-> 0, drain |-> 0]

ExecFails == [Ext(0, 0, "pool", 0, 0) EXCEPT !.fail = TRUE]

ExecBehaviours(swap_amount, min_amount_out) ==
  {Memo, ExecFails}
    \cup {Ext(s, r, "pool", 0, 0) :
            s \in {swap_amount, swap_amount + 1},
            r \in {0, min_amount_out}}
    \cup {Ext(0, min_amount_out, "pool", 0, 0)}
    \cup {Ext(-1, min_amount_out, "pool", 0, 0)}
    \cup {Ext(swap_amount, 0, "authority", 0, 0)}
    \cup {Ext(s, 0, "pool", 1, 0) : s \in {0, swap_amount + 1}}
    \cup {Ext(0, 0, "pool", 0, 1)}

\* the PDA-owned accounts the swap does not name
OtherHoldings(inAcc, outAcc) ==
  {a \in open : AccOwner[a] = TraderPDA /\ a # inAcc /\ a # outAcc}

\* the executor can carry out behaviour e on ledger l
ExecCan(l, inAcc, outAcc, e) ==
  /\ ~e.fail
  /\ l[inAcc] >= e.spend
  /\ (IF inAcc = outAcc THEN l[outAcc] - e.spend ELSE l[outAcc]) + e.recv >= e.outDebit
  /\ e.drain > 0 => \E a \in OtherHoldings(inAcc, outAcc) : l[a] >= e.drain

\* ledger after the external executor ran behaviour e
ExecLedger(l, inAcc, outAcc, e) ==
  LET l1 == [l EXCEPT ![inAcc] = @ - e.spend]
      l2 == IF e.dest = "authority" /\ e.spend > 0
            THEN [l1 EXCEPT ![Ata(Authority, AccMint[inAcc])] = @ + e.spend]
            ELSE l1
      l3 == [l2 EXCEPT ![outAcc] = @ + e.recv - e.outDebit]
      victim == CHOOSE a \in OtherHoldings(inAcc, outAcc) : l[a] >= e.drain
  IN  IF e.drain > 0
      THEN [l3 EXCEPT ![victim] = @ - e.drain,
                      ![Ata(Authority, AccMint[victim])] = @ + e.drain]
      ELSE l3

\* outcome of execute_trader_swap: the error, the step that raised it, and the
\* ledger and TraderState the handler had produced when it returned
SwapResult(err, stage, l, t, fee, swap_amount, spent, received) ==
  [err |-> err, stage |-> stage, bal |-> l, ts |-> t, fee |-> fee,
   swap_amount |-> swap_amount, amount_spent |-> spent, amount_received |-> received]

\* account validation of ExecuteTraderSwap: every account deserializes, and
\* the vault has_one = authority
SwapAccountsError(signer, inAcc, outAcc, feeAcc) ==
  IF ~vault.exists \/ ~ts.exists \/ ~cfg.exists
     \/ ~({inAcc, outAcc, feeAcc} \subseteq open)
  THEN "AccountNotInitialized"
  ELSE IF vault.authority # signer THEN "Unauthorized"
  ELSE "Ok"

\* the auth & status checks without the pause check
SwapStatusErrorNoPauseCheck(signer) ==
  IF vault.authority # signer THEN "Unauthorized"
  ELSE IF ~(ts.is_initialized \/ ts.is_syncing) THEN "TraderNotInitialized"
  ELSE "Ok"

\* status checks that also honour the vault's pause flag
SwapStatusErrorVaultPause(signer) ==
  IF vault.is_paused THEN "Paused"
  ELSE IF ts.is_paused THEN "TraderPaused"
  ELSE IF vault.authority # signer THEN "Unauthorized"
  ELSE IF ~(ts.is_initialized \/ ts.is_syncing) THEN "TraderNotInitialized"
  ELSE "Ok"

\* 1. Auth & Status Checks
SwapStatusError(signer) ==
  IF ts.is_paused THEN "TraderPaused"
  ELSE IF vault.authority # signer THEN "Unauthorized"
  ELSE IF ~(ts.is_initialized \/ ts.is_syncing) THEN "TraderNotInitialized"
  ELSE "Ok"

\* an ownership validation that looks at the input account only
SwapOwnershipErrorInputOnly(inAcc, outAcc) ==
  IF AccOwner[inAcc] # TraderPDA THEN "InvalidTokenAccountOwner" ELSE "Ok"

\* explicit ownership validation: both token accounts are owned by the
\* TraderState PDA
SwapOwnershipError(inAcc, outAcc) ==
  LET is_trader_owned_in == AccOwner[inAcc] = TraderPDA
      is_trader_owned_out == AccOwner[outAcc] = TraderPDA
  IN  IF ~is_trader_owned_in THEN "InvalidTokenAccountOwner"
      ELSE IF ~is_trader_owned_out THEN "InvalidTokenAccountOwner"
      ELSE "Ok"

\* an accounting update that adds what was received to current_value
SwapAccountingAdditive(t, output_mint, amount_received) ==
  IF output_mint = vault.base_mint
  THEN [t EXCEPT !.current_value = @ + amount_received]
  ELSE t

\* TraderState accounting: current_value is replaced by amount_received when
\* the swap's output is the base asset
SwapAccounting(t, output_mint, amount_received) ==
  IF output_mint = vault.base_mint
  THEN [t EXCEPT !.current_value = amount_received]
  ELSE t

\* a fee destination check that looks at the fee account's owner only
SwapFeeDestinationErrorOwnerOnly(inAcc, feeAcc) ==
  IF AccOwner[feeAcc] # cfg.admin THEN "InvalidFeeDestination" ELSE "Ok"

\* 3. Platform Fee: the fee destination is an account of the admin, in the
\* input mint
SwapFeeDestinationError(inAcc, feeAcc) ==
  IF AccOwner[feeAcc] # cfg.admin THEN "InvalidFeeDestination"
  ELSE IF AccMint[feeAcc] # AccMint[inAcc] THEN "InvalidFeeDestination"
  ELSE "Ok"

SwapOutcome(signer, inAcc, outAcc, feeAcc, amount_in, min_amount_out, e) ==
  LET input_mint == AccMint[inAcc]
      output_mint == AccMint[outAcc]
      base_mint == vault.base_mint
      is_trader_owned_in == AccOwner[inAcc] = TraderPDA
      is_trader_owned_out == AccOwner[outAcc] = TraderPDA
      fee == Fee(amount_in, cfg.platform_fee_bps)
      swap_amount == amount_in - fee
      \* ledger after the fee transfer
      ledger1 == IF fee > 0 THEN Transfer(bal, inAcc, feeAcc, fee) ELSE bal
      \* input account reloaded after the fee transfer; the output account's
      \* amount is the one deserialized when the instruction started
      balance_in_before == ledger1[inAcc]
      balance_out_before == bal[outAcc]
      memoMoves == e.kind = "memo" /\ input_mint = output_mint
      ledger2 == IF e.kind = "memo"
                 THEN IF memoMoves THEN Transfer(ledger1, inAcc, outAcc, swap_amount)
                      ELSE ledger1
                 ELSE ExecLedger(ledger1, inAcc, outAcc, e)
      balance_in_after == ledger2[inAcc]
      balance_out_after == ledger2[outAcc]
      amount_spent == balance_in_before - balance_in_after
      amount_received == balance_out_after - balance_out_before
      new_ts == SwapAccounting(ts, output_mint, amount_received)
      Early(err, stage) == SwapResult(err, stage, bal, ts, 0, 0, 0, 0)
  IN  IF SwapAccountsError(signer, inAcc, outAcc, feeAcc) # "Ok"
      THEN Early(SwapAccountsError(signer, inAcc, outAcc, feeAcc), "accounts")
      ELSE IF SwapStatusError(signer) # "Ok"
      THEN Early(SwapStatusError(signer), "status")
      ELSE IF SwapOwnershipError(inAcc, outAcc) # "Ok"
      THEN Early(SwapOwnershipError(inAcc, outAcc), "ownership")
      ELSE IF ~((input_mint = base_mint \/ output_mint = base_mint)
                \/ (is_trader_owned_in /\ is_trader_owned_out))
      THEN Early("InvalidSwapTopology", "topology")
      ELSE IF SwapFeeDestinationError(inAcc, feeAcc) # "Ok"
      THEN Early(SwapFeeDestinationError(inAcc, feeAcc), "fee_destination")
      ELSE IF fee > amount_in THEN Early("FeeEvasion", "fee_computation")
      ELSE IF fee > 0 /\ ~CanTransfer(bal, inAcc, fee)
      THEN SwapResult("TokenInsufficientFunds", "fee_transfer", bal, ts,
                      fee, swap_amount, 0, 0)
      ELSE IF e.kind = "memo" /\ memoMoves /\ ~CanTransfer(ledger1, inAcc, swap_amount)
      THEN SwapResult("TokenInsufficientFunds", "executor", ledger1, ts,
                      fee, swap_amount, 0, 0)
      ELSE IF e.kind = "ext" /\ ~ExecCan(ledger1, inAcc, outAcc, e)
      THEN SwapResult("ExecutorFailed", "executor", ledger1, ts,
                      fee, swap_amount, 0, 0)
      ELSE IF amount_spent < 0 \/ amount_received < 0
      THEN SwapResult("Panic", "post_check", ledger2, ts,
                      fee, swap_amount, amount_spent, amount_received)
      ELSE IF amount_spent > swap_amount
      THEN SwapResult("FeeEvasion", "post_check", ledger2, ts,
                      fee, swap_amount, amount_spent, amount_received)
      ELSE IF amount_received < min_amount_out
      THEN SwapResult("SlippageExceeded", "post_check", ledger2, ts,
                      fee, swap_amount, amount_spent, amount_received)
      ELSE SwapResult("Ok", "done", ledger2, new_ts,
                      fee, swap_amount, amount_spent, amount_received)

\* the record of a swap call: a call rejected before the ownership validation
\* is recorded by its signer and error, one rejected before the fee
\* computation also by its holding accounts, every other call in full
SwapRecord(signer, inAcc, outAcc, feeAcc, amount_in, min_amount_out, r) ==
  LET c == [Call("execute_trader_swap", signer, r.err) EXCEPT !.stage = r.stage]
  IN  IF r.stage \in {"accounts", "status"} THEN c
      ELSE IF r.stage \in {"ownership", "topology"}
      THEN [c EXCEPT !.inAcc = inAcc, !.outAcc = outAcc]
      ELSE [c EXCEPT !.inAcc = inAcc, !.outAcc = outAcc, !.feeAcc = feeAcc,
                     !.amount_in = amount_in, !.min_amount_out = min_amount_out,
                     !.fee = r.fee, !.swap_amount = r.swap_amount,
                     !.amount_spent = r.amount_spent,
                     !.amount_received = r.amount_received]

\* a runtime that kept what a failed handler had written
CommittedAlways(r) == [bal |-> r.bal, ts |-> r.ts]

\* what the runtime keeps of an outcome: everything when the handler returned
\* Ok, nothing when it returned an error
Committed(r) ==
  IF r.err = "Ok" THEN [bal |-> r.bal, ts |-> r.ts] ELSE [bal |-> bal, ts |-> ts]

ExecuteTraderSwap(signer, inAcc, outAcc, feeAcc, amount_in, min_amount_out, e) ==
  LET r == SwapOutcome(signer, inAcc, outAcc, feeAcc, amount_in, min_amount_out, e)
      c == Committed(r)
  IN  /\ swaps < MaxSwaps
      /\ \A a \in TokenAccounts : r.bal[a] <= MaxBalance
      /\ bal' = c.bal
      /\ ts' = c.ts
      /\ swaps' = IF r.err = "Ok" THEN swaps + 1 ELSE swaps
      /\ last' = SwapRecord(signer, inAcc, outAcc, feeAcc, amount_in, min_amount_out, r)
      /\ UNCHANGED <<cfg, vault, open, settledInLife>>

-----------------------------------------------------------------------------
(* Settlement, withdrawal, closing *)

\* settle_trader_state without its pause check
SettleOutcomeNoPauseCheck(signer, acct) ==
  IF ~vault.exists \/ ~ts.exists \/ acct \notin open THEN "AccountNotInitialized"
  ELSE IF vault.owner # signer THEN "ConstraintSeeds"
  ELSE IF ts.owner # signer THEN "Unauthorized"
  ELSE IF AccOwner[acct] # TraderPDA THEN "ConstraintTokenOwner"
  ELSE IF acct # Ata(TraderPDA, vault.base_mint) THEN "ConstraintAssociated"
  ELSE IF ~(bal[acct] >= ts.current_value) THEN "InsufficientFunds"
  ELSE "Ok"

\* settle_trader_state; acct is the token account passed as
\* trader_token_account (SettleTraderState constrains it to the base ATA)
SettleOutcome(signer, acct) ==
  IF ~vault.exists \/ ~ts.exists \/ acct \notin open THEN "AccountNotInitialized"
  ELSE IF vault.owner # signer THEN "ConstraintSeeds"
  ELSE IF ts.owner # signer THEN "Unauthorized"
  ELSE IF AccOwner[acct] # TraderPDA THEN "ConstraintTokenOwner"
  ELSE IF acct # Ata(TraderPDA, vault.base_mint) THEN "ConstraintAssociated"
  ELSE IF ~ts.is_paused THEN "TraderNotPaused"
  ELSE IF AccMint[acct] # vault.base_mint THEN "MintMismatch"
  ELSE IF ~(bal[acct] >= ts.current_value) THEN "InsufficientFunds"
  ELSE "Ok"

SettleTraderState(signer, acct) ==
  Ready /\
  LET err == SettleOutcome(signer, acct)
  IN  /\ ts' = IF err = "Ok" THEN [ts EXCEPT !.is_settled = TRUE] ELSE ts
      /\ settledInLife' = (settledInLife \/ err = "Ok")
      /\ last' = [Call("settle_trader_state", signer, err) EXCEPT !.inAcc = acct]
      /\ UNCHANGED <<cfg, vault, bal, open, swaps>>

\* withdraw_trader_state with no check of who signs
WithdrawOutcomeAnySigner(signer) ==
  IF ~vault.exists \/ ~ts.exists \/ ~({"tBase", "vBase", "oBase"} \subseteq open)
  THEN "AccountNotInitialized"
  ELSE IF ~ts.is_paused THEN "TraderNotPaused"
  ELSE IF ~ts.is_settled THEN "NotSettled"
  ELSE "Ok"

\* withdraw_trader_state without its is_settled check
WithdrawOutcomeNoSettleCheck(signer) ==
  IF ~vault.exists \/ ~ts.exists \/ ~({"tBase", "vBase", "oBase"} \subseteq open)
  THEN "AccountNotInitialized"
  ELSE IF vault.owner # signer THEN "ConstraintSeeds"
  ELSE IF ts.owner # signer THEN "Unauthorized"
  ELSE IF ~ts.is_paused THEN "TraderNotPaused"
  ELSE "Ok"

\* withdraw_trader_state: TraderState ATA -> vault ATA -> owner wallet, then
\* the ATA and the TraderState are closed
WithdrawOutcome(signer) ==
  IF ~vault.exists \/ ~ts.exists \/ ~({"tBase", "vBase", "oBase"} \subseteq open)
  THEN "AccountNotInitialized"
  ELSE IF vault.owner # signer THEN "ConstraintSeeds"
  ELSE IF ts.owner # signer THEN "Unauthorized"
  ELSE IF ~ts.is_paused THEN "TraderNotPaused"
  ELSE IF ~ts.is_settled THEN "NotSettled"
  ELSE "Ok"

\* a withdraw_trader_state that stops after its first transfer
WithdrawTraderStateToVaultOnly(signer) ==
  Ready /\
  LET err == WithdrawOutcome(signer)
      amount == bal["tBase"]
  IN  IF err # "Ok" THEN Fail("withdraw_trader_state", signer, err)
      ELSE /\ bal' = Transfer(bal, "tBase", "vBase", amount)
           /\ open' = open \ {"tBase"}
           /\ ts' = NoTrader
           /\ last' = [Call("withdraw_trader_state", signer, "Ok") EXCEPT
                         !.amount_in = amount]
           /\ UNCHANGED <<cfg, vault, settledInLife, swaps>>

WithdrawTraderState(signer) ==
  Ready /\
  LET err == WithdrawOutcome(signer)
      amount == bal["tBase"]
      l1 == Transfer(bal, "tBase", "vBase", amount)
      l2 == Transfer(l1, "vBase", Ata(signer, vault.base_mint), amount)
  IN  IF err # "Ok" THEN Fail("withdraw_trader_state", signer, err)
      ELSE /\ bal' = l2
           /\ open' = open \ {"tBase"}
           /\ ts' = NoTrader
           /\ last' = [Call("withdraw_trader_state", signer, "Ok") EXCEPT
                         !.amount_in = amount]
           /\ UNCHANGED <<cfg, vault, settledInLife, swaps>>

\* close_trader_state without its pause check
CloseOutcomeNoPauseCheck(signer) ==
  IF ~vault.exists \/ ~ts.exists \/ ~({"tBase", "vBase"} \subseteq open)
  THEN "AccountNotInitialized"
  ELSE IF ts.owner # signer THEN "Unauthorized"
  ELSE "Ok"

\* close_trader_state: refund TraderState ATA -> vault ATA, close both
CloseOutcome(signer) ==
  IF ~vault.exists \/ ~ts.exists \/ ~({"tBase", "vBase"} \subseteq open)
  THEN "AccountNotInitialized"
  ELSE IF ts.owner # signer THEN "Unauthorized"
  ELSE IF ~ts.is_paused THEN "TraderNotPaused"
  ELSE "Ok"

CloseTraderState(signer) ==
  Ready /\
  LET err == CloseOutcome(signer)
      amount == bal["tBase"]
  IN  IF err # "Ok" THEN Fail("close_trader_state", signer, err)
      ELSE /\ bal' = IF amount > 0 THEN Transfer(bal, "tBase", "vBase", amount) ELSE bal
           /\ open' = open \ {"tBase"}
           /\ ts' = NoTrader
           /\ last' = [Call("close_trader_state", signer, "Ok") EXCEPT
                         !.amount_in = amount]
           /\ UNCHANGED <<cfg, vault, settledInLife, swaps>>

\* close_trader_ata without its balance check
CloseTraderAtaOutcomeNoBalanceCheck(signer, acct) ==
  IF ~ts.exists \/ acct \notin open THEN "AccountNotInitialized"
  ELSE IF ts.owner # signer THEN "Unauthorized"
  ELSE IF AccOwner[acct] # TraderPDA THEN "ConstraintTokenOwner"
  ELSE IF ~ts.is_paused THEN "TraderNotPaused"
  ELSE "Ok"

\* close_trader_ata: close an empty TraderState-owned token account
CloseTraderAtaOutcome(signer, acct) ==
  IF ~ts.exists \/ acct \notin open THEN "AccountNotInitialized"
  ELSE IF ts.owner # signer THEN "Unauthorized"
  ELSE IF AccOwner[acct] # TraderPDA THEN "ConstraintTokenOwner"
  ELSE IF ~ts.is_paused THEN "TraderNotPaused"
  ELSE IF bal[acct] # 0 THEN "NonZeroBalance"
  ELSE "Ok"

CloseTraderAta(signer, acct) ==
  Ready /\
  LET err == CloseTraderAtaOutcome(signer, acct)
  IN  /\ open' = IF err = "Ok" THEN open \ {acct} ELSE open
      /\ last' = [Call("close_trader_ata", signer, err) EXCEPT !.inAcc = acct]
      /\ UNCHANGED <<cfg, vault, ts, bal, settledInLife, swaps>>

-----------------------------------------------------------------------------
(* Vault policy: whitelist, pause, and the legacy feature flag *)

\* Vec::contains
Contains(seq, x) == \E i \in 1..Len(seq) : seq[i] = x

\* iter().position(|e| e == x): the first index that holds x
Position(seq, x) ==
  CHOOSE i \in 1..Len(seq) : seq[i] = x /\ \A j \in 1..(i - 1) : seq[j] # x

\* Vec::remove(pos)
RemoveAt(seq, pos) == SubSeq(seq, 1, pos - 1) \o SubSeq(seq, pos + 1, Len(seq))

\* a ManageWhitelist that accepts any signer
ManageWhitelistErrorAnySigner(signer) ==
  IF ~vault.exists THEN "AccountNotInitialized" ELSE "Ok"

\* account validation of ManageWhitelist: vault has_one = owner
ManageWhitelistError(signer) ==
  IF ~vault.exists THEN "AccountNotInitialized"
  ELSE IF vault.owner # signer THEN "Unauthorized"
  ELSE "Ok"

\* an add_allowed_mint that pushes without looking
AddAllowedMintAlwaysPush(signer, mint) ==
  Ready /\
  LET err == ManageWhitelistError(signer)
      allowed == Append(vault.allowed_mints, mint)
  IN  IF err # "Ok" THEN Fail("add_allowed_mint", signer, err)
      ELSE IF Len(allowed) > MaxAllowedMints
      THEN Fail("add_allowed_mint", signer, "AccountDidNotSerialize")
      ELSE /\ vault' = [vault EXCEPT !.allowed_mints = allowed]
           /\ last' = [Call("add_allowed_mint", signer, "Ok") EXCEPT !.mint = mint]
           /\ UNCHANGED <<cfg, ts, bal, open, settledInLife, swaps>>

\* add_allowed_mint: push the mint unless the list holds it; the account is
\* written back into the space reserved at initialize_vault
AddAllowedMint(signer, mint) ==
  Ready /\
  LET err == ManageWhitelistError(signer)
      allowed == IF ~Contains(vault.allowed_mints, mint)
                 THEN Append(vault.allowed_mints, mint)
                 ELSE vault.allowed_mints
  IN  IF err # "Ok" THEN Fail("add_allowed_mint", signer, err)
      ELSE IF Len(allowed) > MaxAllowedMints
      THEN Fail("add_allowed_mint", signer, "AccountDidNotSerialize")
      ELSE /\ vault' = [vault EXCEPT !.allowed_mints = allowed]
           /\ last' = [Call("add_allowed_mint", signer, "Ok") EXCEPT !.mint = mint]
           /\ UNCHANGED <<cfg, ts, bal, open, settledInLife, swaps>>

\* remove_allowed_mint: remove the first occurrence of the mint, if any
RemoveAllowedMint(signer, mint) ==
  Ready /\
  LET err == ManageWhitelistError(signer)
      allowed == IF Contains(vault.allowed_mints, mint)
                 THEN RemoveAt(vault.allowed_mints, Position(vault.allowed_mints, mint))
                 ELSE vault.allowed_mints
  IN  IF err # "Ok" THEN Fail("remove_allowed_mint", signer, err)
      ELSE /\ vault' = [vault EXCEPT !.allowed_mints = allowed]
           /\ last' = [Call("remove_allowed_mint", signer, "Ok") EXCEPT !.mint = mint]
           /\ UNCHANGED <<cfg, ts, bal, open, settledInLife, swaps>>

\* account validation of TogglePause: vault has_one = owner
TogglePauseError(signer) ==
  IF ~vault.exists THEN "AccountNotInitialized"
  ELSE IF vault.owner # signer THEN "Unauthorized"
  ELSE "Ok"

\* toggle_pause: vault.is_paused = !vault.is_paused
TogglePause(signer) ==
  Ready /\
  LET err == TogglePauseError(signer)
  IN  IF err # "Ok" THEN Fail("toggle_pause", signer, err)
      ELSE /\ vault' = [vault EXCEPT !.is_paused = ~@]
           /\ last' = Call("toggle_pause", signer, "Ok")
           /\ UNCHANGED <<cfg, ts, bal, open, settledInLife, swaps>>

\* an AdminGlobalConfig that accepts any signer
AdminGlobalConfigErrorAnySigner(signer) ==
  IF ~cfg.exists THEN "AccountNotInitialized" ELSE "Ok"

\* account validation of AdminGlobalConfig: global_config has_one = admin
AdminGlobalConfigError(signer) ==
  IF ~cfg.exists THEN "AccountNotInitialized"
  ELSE IF cfg.admin # signer THEN "Unauthorized"
  ELSE "Ok"

\* toggle_legacy_trading: legacy_trading_enabled = !legacy_trading_enabled
ToggleLegacyTrading(signer) ==
  Ready /\
  LET err == AdminGlobalConfigError(signer)
  IN  IF err # "Ok" THEN Fail("toggle_legacy_trading", signer, err)
      ELSE /\ cfg' = [cfg EXCEPT !.legacy_trading_enabled = ~@]
           /\ last' = Call("toggle_legacy_trading", signer, "Ok")
           /\ UNCHANGED <<vault, ts, bal, open, settledInLife, swaps>>

-----------------------------------------------------------------------------
(* execute_swap, the legacy path *)

\* fee_amount = amount_in.checked_mul(10).unwrap().checked_div(10000).unwrap()
LegacyFee(amount_in) == (amount_in * LegacyFeeBps) \div BpsDenominator

\* checked_sub(..).unwrap_or(0)
SubOrZero(a, b) == IF a >= b THEN a - b ELSE 0

\* account validation of ExecuteSwap: every account deserializes, and
\* token_account_in is the vault's associated account of the base mint;
\* token_account_out and platform_fee_account carry no constraint
LegacyAccountsError(inAcc, outAcc, feeAcc) ==
  IF ~vault.exists \/ ~cfg.exists \/ ~({inAcc, outAcc, feeAcc} \subseteq open)
  THEN "AccountNotInitialized"
  ELSE IF AccOwner[inAcc] # VaultPDA THEN "ConstraintTokenOwner"
  ELSE IF inAcc # Ata(VaultPDA, vault.base_mint) THEN "ConstraintAssociated"
  ELSE "Ok"

\* the vault checks of the handler without the legacy gate
LegacyStatusErrorNoGate(signer) ==
  IF vault.is_paused THEN "Paused"
  ELSE IF vault.authority # signer THEN "Unauthorized"
  ELSE "Ok"

\* the gate and the vault checks of the handler
LegacyStatusError(signer) ==
  IF ~cfg.legacy_trading_enabled THEN "LegacyTradingDisabled"
  ELSE IF vault.is_paused THEN "Paused"
  ELSE IF vault.authority # signer THEN "Unauthorized"
  ELSE "Ok"

\* a whitelist check that lets every mint pass
is_valid_mint_any(mint) == TRUE

\* 1. Whitelist Check
is_valid_mint(mint) ==
  mint = vault.base_mint \/ Contains(vault.allowed_mints, mint)

\* outcome of execute_swap: the error, the step that raised it, and the
\* ledger the handler had produced when it returned; has_payload says that
\* the instruction data is longer than its 24-byte header
LegacySwapOutcome(signer, inAcc, outAcc, feeAcc, amount_in, min_amount_out, has_payload, e) ==
  LET mint_in == AccMint[inAcc]
      mint_out == AccMint[outAcc]
      base_mint == vault.base_mint
      balance_in_before == bal[inAcc]
      balance_out_before == bal[outAcc]
      fee_amount == LegacyFee(amount_in)
      ledger1 == IF fee_amount > 0 THEN Transfer(bal, inAcc, feeAcc, fee_amount)
                 ELSE bal
      ledger2 == IF e.kind = "memo" THEN ledger1
                 ELSE ExecLedger(ledger1, inAcc, outAcc, e)
      balance_in_after == ledger2[inAcc]
      balance_out_after == ledger2[outAcc]
      amount_received == SubOrZero(balance_out_after, balance_out_before)
      amount_spent == SubOrZero(balance_in_before, balance_in_after)
      Early(err, stage) == SwapResult(err, stage, bal, ts, 0, 0, 0, 0)
      Late(err, stage, l, spent, received) ==
        SwapResult(err, stage, l, ts, fee_amount, amount_in - fee_amount,
                   spent, received)
  IN  IF LegacyAccountsError(inAcc, outAcc, feeAcc) # "Ok"
      THEN Early(LegacyAccountsError(inAcc, outAcc, feeAcc), "accounts")
      ELSE IF LegacyStatusError(signer) # "Ok"
      THEN Early(LegacyStatusError(signer), "status")
      ELSE IF ~is_valid_mint(mint_in) THEN Early("TokenNotAllowed", "whitelist")
      ELSE IF ~is_valid_mint(mint_out) THEN Early("TokenNotAllowed", "whitelist")
      ELSE IF ~(mint_in = base_mint \/ mint_out = base_mint)
      THEN Early("InvalidSwapTopology", "topology")
      ELSE IF AccOwner[feeAcc] # PlatformFeeWallet
      THEN Early("InvalidFeeDestination", "fee_destination")
      ELSE IF fee_amount > 0 /\ AccMint[feeAcc] # mint_in
      THEN Late("TokenMintMismatch", "fee_transfer", bal, 0, 0)
      ELSE IF fee_amount > 0 /\ ~CanTransfer(bal, inAcc, fee_amount)
      THEN Late("TokenInsufficientFunds", "fee_transfer", bal, 0, 0)
      ELSE IF ~has_payload
      THEN Late("InvalidInstructionData", "payload", ledger1, 0, 0)
      ELSE IF e.kind = "ext" /\ ~ExecCan(ledger1, inAcc, outAcc, e)
      THEN Late("ExecutorFailed", "executor", ledger1, 0, 0)
      ELSE IF amount_received < min_amount_out
      THEN Late("SlippageExceeded", "post_check", ledger2, amount_spent, amount_received)
      ELSE IF amount_spent > amount_in
      THEN Late("FeeEvasion", "post_check", ledger2, amount_spent, amount_received)
      ELSE Late("Ok", "done", ledger2, amount_spent, amount_received)

\* the record of a legacy swap call: a call rejected before the fee
\* destination check is recorded by its signer, its input and output accounts
\* and its error, every other call in full
LegacySwapRecord(signer, inAcc, outAcc, feeAcc, amount_in, min_amount_out, r) ==
  LET c == [Call("execute_swap", signer, r.err) EXCEPT
              !.stage = r.stage, !.inAcc = inAcc, !.outAcc = outAcc]
  IN  IF r.stage \in {"accounts", "status", "whitelist", "topology"} THEN c
      ELSE [c EXCEPT !.feeAcc = feeAcc,
                     !.amount_in = amount_in, !.min_amount_out = min_amount_out,
                     !.fee = r.fee, !.swap_amount = r.swap_amount,
                     !.amount_spent = r.amount_spent,
                     !.amount_received = r.amount_received]

ExecuteSwap(signer, inAcc, outAcc, feeAcc, amount_in, min_amount_out, has_payload, e) ==
  LET r == LegacySwapOutcome(signer, inAcc, outAcc, feeAcc, amount_in,
                             min_amount_out, has_payload, e)
      c == Committed(r)
  IN  /\ swaps < MaxSwaps
      /\ \A a \in TokenAccounts : r.bal[a] <= MaxBalance
      /\ bal' = c.bal
      /\ swaps' = IF r.err = "Ok" THEN swaps + 1 ELSE swaps
      /\ last' = LegacySwapRecord(signer, inAcc, outAcc, feeAcc, amount_in,
                                  min_amount_out, r)
      /\ UNCHANGED <<cfg, vault, ts, open, settledInLife>>

-----------------------------------------------------------------------------
(* The inline instruction set of lib.rs *)

\* account validation of ManageWhitelist as lib.rs declares it: the signer
\* is the account named authority and vault has_one = authority
LibManageWhitelistError(signer) ==
  IF ~vault.exists THEN "AccountNotInitialized"
  ELSE IF vault.authority # signer THEN "Unauthorized"
  ELSE "Ok"

\* account validation of TogglePause as lib.rs declares it
LibTogglePauseError(signer) ==
  IF ~vault.exists THEN "AccountNotInitialized"
  ELSE IF vault.authority # signer THEN "Unauthorized"
  ELSE "Ok"

\* the constraints of ExecuteSwap as lib.rs declares them, checked once
\* every account has deserialized: vault has_one = authority, and
\* token_account_in and token_account_out both have the vault as their
\* token authority, of whatever mint
LibExecuteSwapConstraintError(signer, inAcc, outAcc) ==
  IF vault.authority # signer THEN "Unauthorized"
  ELSE IF AccOwner[inAcc] # VaultPDA THEN "ConstraintTokenOwner"
  ELSE IF AccOwner[outAcc] # VaultPDA THEN "ConstraintTokenOwner"
  ELSE "Ok"

-----------------------------------------------------------------------------
(* The program *)

\* accounts a caller passes as the swap's input and output
SwapAccounts == {"tBase", "tAlt", "vBase", "aBase"}
\* accounts a caller passes as the platform fee account
FeeAccounts == {"feeBase", "feeAlt", "aBase"}
\* slippage floors a caller passes
MinAmounts == {0, 1}

\* a swap call: the checks that precede the ownership validation read only
\* the signer, those that precede the fee computation only the signer and the
\* accounts, and none of them reads min_amount_out or the executor; a call
\* they reject is explored for one choice of what they do not read
SwapCall ==
  Ready /\ swaps < MaxSwaps /\
  \E signer \in Signers :
    LET r0 == SwapOutcome(signer, "tBase", "tBase", "feeBase", 1, 0, Memo)
    IN  IF r0.stage = "status" \/ (r0.stage = "accounts" /\ r0.err = "Unauthorized")
        THEN ExecuteTraderSwap(signer, "tBase", "tBase", "feeBase", 1, 0, Memo)
        ELSE \E inAcc \in SwapAccounts, outAcc \in SwapAccounts, feeAcc \in FeeAccounts :
          LET r1 == SwapOutcome(signer, inAcc, outAcc, feeAcc, 1, 0, Memo)
          IN  IF r1.stage \in {"accounts", "ownership", "topology", "fee_destination"}
              THEN ExecuteTraderSwap(signer, inAcc, outAcc, feeAcc, 1, 0, Memo)
              ELSE \E amount_in \in SwapAmounts, min_amount_out \in MinAmounts :
                     \E e \in ExecBehaviours(
                                amount_in - Fee(amount_in, cfg.platform_fee_bps),
                                min_amount_out) :
                       ExecuteTraderSwap(signer, inAcc, outAcc, feeAcc, amount_in,
                                         min_amount_out, e)

Instruction ==
  \/ InitializeGlobalConfig(Admin)
  \/ InitializeVault(Owner)
  \/ \E signer \in Signers : InitVaultAta(signer, BaseMint)
  \/ \E signer \in Signers, amount \in Amounts : DepositToken(signer, amount)
  \/ \E signer \in Signers, amount \in Amounts : WithdrawToken(signer, amount)
  \/ \E signer \in Signers, amount \in Amounts : CreateTraderState(signer, amount)
  \/ \E signer \in Signers, mint \in Mints : CreateTraderAta(signer, mint)
  \/ \E signer \in Signers : MarkTraderInitialized(signer)
  \/ \E signer \in Signers : StartSync(signer)
  \/ \E signer \in Signers : FinishSync(signer)
  \/ \E signer \in Signers : PauseTraderState(signer)
  \/ \E signer \in Signers : ResumeTraderState(signer)
  \/ SwapCall
  \/ \E signer \in Signers, acct \in SwapAccounts : SettleTraderState(signer, acct)
  \/ \E signer \in Signers : WithdrawTraderState(signer)
  \/ \E signer \in Signers : CloseTraderState(signer)
  \/ \E signer \in Signers, acct \in SwapAccounts : CloseTraderAta(signer, acct)

Next == Instruction

Spec == Init /\ [][Next]_vars

\* token accounts a caller passes to close_vault_ata
VaultAtaArgs == {"vBase", "tBase"}

\* The owner-level surface: custody of the vault and the TraderState
\* lifecycle, every instruction but the swap
OwnerNext ==
  \/ InitializeVault(Owner)
  \/ \E signer \in Signers : InitVaultAta(signer, BaseMint)
  \/ \E signer \in Signers, amount \in Amounts : DepositToken(signer, amount)
  \/ \E signer \in Signers, amount \in Amounts : WithdrawToken(signer, amount)
  \/ \E signer \in Signers : DepositSol(signer, InitialLamports)
  \/ \E signer \in Signers : WithdrawSol(signer, InitialLamports)
  \/ \E signer \in Signers, acct \in VaultAtaArgs : CloseVaultAta(signer, acct)
  \/ \E signer \in Signers, amount \in Amounts : CreateTraderState(signer, amount)
  \/ \E signer \in Signers, mint \in Mints : CreateTraderAta(signer, mint)
  \/ \E signer \in Signers : MarkTraderInitialized(signer)
  \/ \E signer \in Signers : StartSync(signer)
  \/ \E signer \in Signers : FinishSync(signer)
  \/ \E signer \in Signers : PauseTraderState(signer)
  \/ \E signer \in Signers : ResumeTraderState(signer)
  \/ \E signer \in Signers, acct \in SwapAccounts : SettleTraderState(signer, acct)
  \/ \E signer \in Signers : WithdrawTraderState(signer)
  \/ \E signer \in Signers : CloseTraderState(signer)
  \/ \E signer \in Signers, acct \in SwapAccounts : CloseTraderAta(signer, acct)

OwnerSpec == Init /\ [][OwnerNext]_vars

\* accounts a caller passes as the legacy swap's input
LegacyInAccounts == {"vBase", "vAlt", "aBase"}
\* accounts a caller passes as the legacy swap's output
LegacyOutAccounts == {"vBase", "vAlt", "aBase"}
\* accounts a caller passes as the legacy swap's platform fee account
LegacyFeeAccounts == {"pfBase", "feeBase"}

\* signers of initialize_global_config
ConfigInitializers == {Admin, Authority}

\* what the external program does with the vault PDA's signature: nothing
\* (the devnet memo program), fail, spend swap_amount or one unit more from
\* the input, credit the output with min_amount_out or with nothing, send
\* what it spent to its pool or to an account of the caller
LegacyExecBehaviours(swap_amount, min_amount_out) ==
  {Memo, ExecFails}
    \cup {Ext(s, r, "pool", 0, 0) :
            s \in {swap_amount, swap_amount + 1}, r \in {0, min_amount_out}}
    \cup {Ext(swap_amount, 0, "authority", 0, 0)}

\* a legacy swap call: the checks that precede the fee destination check read
\* the signer and the input and output accounts only; a call they reject is
\* explored for one choice of what they do not read
LegacySwapCall ==
  Ready /\ swaps < MaxSwaps /\
  \E signer \in Signers, inAcc \in LegacyInAccounts, outAcc \in LegacyOutAccounts :
    LET r0 == LegacySwapOutcome(signer, inAcc, outAcc, "pfBase", 1, 0, TRUE, Memo)
    IN  IF r0.stage \in {"accounts", "status", "whitelist", "topology"}
        THEN ExecuteSwap(signer, inAcc, outAcc, "pfBase", 1, 0, TRUE, Memo)
        ELSE \E feeAcc \in LegacyFeeAccounts, amount_in \in SwapAmounts,
                min_amount_out \in MinAmounts, has_payload \in BOOLEAN :
               \E e \in LegacyExecBehaviours(amount_in - LegacyFee(amount_in),
                                             min_amount_out) :
                 ExecuteSwap(signer, inAcc, outAcc, feeAcc, amount_in,
                             min_amount_out, has_payload, e)

\* The policy surface and the legacy path: GlobalConfig, the vault's
\* whitelist and pause flag, the vault's token accounts and execute_swap
PolicyNext ==
  \/ \E signer \in ConfigInitializers : InitializeGlobalConfig(signer)
  \/ \E signer \in Signers : ToggleLegacyTrading(signer)
  \/ InitializeVault(Owner)
  \/ \E signer \in Signers, mint \in Mints : InitVaultAta(signer, mint)
  \/ \E signer \in Signers, amount \in Amounts : DepositToken(signer, amount)
  \/ \E signer \in Signers, mint \in MintArgs : AddAllowedMint(signer, mint)
  \/ \E signer \in Signers, mint \in MintArgs : RemoveAllowedMint(signer, mint)
  \/ \E signer \in Signers : TogglePause(signer)
  \/ LegacySwapCall

PolicySpec == Init /\ [][PolicyNext]_vars

\* the token program's InitializeAccount: anyone opens a token account of
\* the base mint whose owner is the TraderState PDA; execute_trader_swap
\* takes any token account the PDA owns
OpenTraderTokenAccount ==
  /\ Ready
  /\ "tBase2" \notin open
  /\ open' = open \cup {"tBase2"}
  /\ last' = [Call("initialize_account", "none", "Ok") EXCEPT !.inAcc = "tBase2"]
  /\ UNCHANGED <<cfg, vault, ts, bal, settledInLife, swaps>>

\* holding accounts a caller passes to a mock swap
MockAccounts == {"tBase", "tBase2", "tAlt"}
\* slippage floors a caller passes to a mock swap
MockMinAmounts == {0, 1, InitialFunds - 1, InitialFunds}

\* execute_trader_swap with the memo program as jupiter_program, the fee
\* going to the admin's account of the input mint
MockSwapCall ==
  Ready /\ swaps < MaxSwaps /\
  \E inAcc \in MockAccounts, outAcc \in MockAccounts,
     amount_in \in SwapAmounts, min_amount_out \in MockMinAmounts :
    ExecuteTraderSwap(Authority, inAcc, outAcc, Ata(Admin, AccMint[inAcc]),
                      amount_in, min_amount_out, Memo)

\* The devnet configuration: a funded TraderState with its holdings, and
\* swaps that name the memo program as their executor
MockNext ==
  \/ InitializeGlobalConfig(Admin)
  \/ InitializeVault(Owner)
  \/ InitVaultAta(Owner, BaseMint)
  \/ \E amount \in Amounts : DepositToken(Owner, amount)
  \/ \E amount \in Amounts : CreateTraderState(Owner, amount)
  \/ \E mint \in Mints : CreateTraderAta(Owner, mint)
  \/ \E signer \in Signers : MarkTraderInitialized(signer)
  \/ OpenTraderTokenAccount
  \/ MockSwapCall

MockSpec == Init /\ [][MockNext]_vars

\* holding accounts a caller passes to a swap whose topology is examined:
\* the TraderState's and the authority's, of both mints
TopologyAccounts == {"tBase", "tAlt", "aBase", "aAlt"}
\* executors of such a swap: the memo program, and a program that moves
\* nothing
TopologyExecutors == {Memo, Ext(0, 0, "pool", 0, 0)}

\* execute_trader_swap by the authority over every pair of these accounts
TopologySwapCall ==
  Ready /\ swaps < MaxSwaps /\
  \E inAcc \in TopologyAccounts, outAcc \in TopologyAccounts,
     amount_in \in SwapAmounts, e \in TopologyExecutors :
    ExecuteTraderSwap(Authority, inAcc, outAcc, Ata(Admin, AccMint[inAcc]),
                      amount_in, 0, e)

\* A funded TraderState with its holdings, and swaps between accounts of
\* either mint and either owner
TopologyNext ==
  \/ InitializeGlobalConfig(Admin)
  \/ InitializeVault(Owner)
  \/ InitVaultAta(Owner, BaseMint)
  \/ \E amount \in Amounts : DepositToken(Owner, amount)
  \/ \E amount \in Amounts : CreateTraderState(Owner, amount)
  \/ \E mint \in Mints : CreateTraderAta(Owner, mint)
  \/ \E signer \in Signers : MarkTraderInitialized(signer)
  \/ \E signer \in Signers : PauseTraderState(signer)
  \/ TopologySwapCall

TopologySpec == Init /\ [][TopologyNext]_vars

\* platform_fee_bps values in 0..10000 under which swaps are explored
RateSamples == {0, DefaultPlatformFeeBps, BpsDenominator \div 2, BpsDenominator}
\* amount_in values the authority declares under these rates
RateAmounts == {1, 3, InitialFunds}

\* a GlobalConfig account holding any of the sampled rates, and nothing else
RateInit ==
  /\ cfg \in {[exists |-> TRUE, admin |-> Admin, platform_fee_bps |-> b,
               performance_fee_bps |-> DefaultPerformanceFeeBps,
               legacy_trading_enabled |-> FALSE] : b \in RateSamples}
  /\ vault = NoVault
  /\ ts = NoTrader
  /\ bal = [a \in TokenAccounts |-> IF a = "oBase" THEN InitialFunds ELSE 0]
  /\ open = {"oBase", "feeBase", "feeAlt", "pfBase", "aBase", "aAlt"}
  /\ last = Call("init", "none", "Ok")
  /\ settledInLife = FALSE
  /\ swaps = 0

\* execute_trader_swap by the authority between the TraderState's holdings,
\* under every executor behaviour
RateSwapCall ==
  Ready /\ swaps < MaxSwaps /\
  \E inAcc \in {"tBase", "tAlt"}, outAcc \in {"tBase", "tAlt"},
     amount_in \in RateAmounts, min_amount_out \in MinAmounts :
    \E e \in ExecBehaviours(amount_in - Fee(amount_in, cfg.platform_fee_bps),
                            min_amount_out) :
      ExecuteTraderSwap(Authority, inAcc, outAcc, Ata(Admin, AccMint[inAcc]),
                        amount_in, min_amount_out, e)

\* A funded TraderState under each sampled fee rate
RateNext ==
  \/ InitializeVault(Owner)
  \/ InitVaultAta(Owner, BaseMint)
  \/ \E amount \in Amounts : DepositToken(Owner, amount)
  \/ \E amount \in Amounts : CreateTraderState(Owner, amount)
  \/ \E mint \in Mints : CreateTraderAta(Owner, mint)
  \/ MarkTraderInitialized(Authority)
  \/ RateSwapCall

RateSpec == RateInit /\ [][RateNext]_vars

\* holding accounts a caller passes to execute_trader_swap while the vault's
\* pause flag is flipped
PauseAccounts == {"tBase", "tAlt"}
\* output accounts a caller passes to execute_swap under either flag value
PauseLegacyOutAccounts == {"vBase", "vAlt"}

\* execute_trader_swap by any signer between the TraderState's holdings
PauseSwapCall ==
  Ready /\ swaps < MaxSwaps /\
  \E signer \in Signers, inAcc \in PauseAccounts, outAcc \in PauseAccounts,
     amount_in \in SwapAmounts, e \in TopologyExecutors :
    ExecuteTraderSwap(signer, inAcc, outAcc, Ata(Admin, AccMint[inAcc]),
                      amount_in, 0, e)

\* execute_swap by any signer out of the vault's base account
PauseLegacyCall ==
  Ready /\ swaps < MaxSwaps /\
  \E signer \in Signers, outAcc \in PauseLegacyOutAccounts,
     amount_in \in SwapAmounts, e \in TopologyExecutors :
    ExecuteSwap(signer, "vBase", outAcc, "pfBase", amount_in, 0, TRUE, e)

\* A vault whose owner flips the pause flag, with a TraderState and both
\* swap paths
PauseNext ==
  \/ InitializeGlobalConfig(Admin)
  \/ ToggleLegacyTrading(Admin)
  \/ InitializeVault(Owner)
  \/ \E mint \in Mints : InitVaultAta(Owner, mint)
  \/ \E amount \in Amounts : DepositToken(Owner, amount)
  \/ \E amount \in Amounts : CreateTraderState(Owner, amount)
  \/ \E mint \in Mints : CreateTraderAta(Owner, mint)
  \/ MarkTraderInitialized(Authority)
  \/ \E signer \in Signers : TogglePause(signer)
  \/ PauseSwapCall
  \/ PauseLegacyCall

PauseSpec == Init /\ [][PauseNext]_vars

-----------------------------------------------------------------------------
(* Properties of execute_trader_swap *)

\* the chain state an instruction can change
chain == <<cfg, vault, ts, bal, open>>

\* the last instruction was an execute_trader_swap that reached the
\* post-swap balance check
SwapMeasured ==
  last.op = "execute_trader_swap" /\ last.stage \in {"post_check", "done"}

\* C1: whatever the executor did, a swap whose input account lost more than
\* swap_amount = amount_in - fee after the fee debit fails with FeeEvasion,
\* whether or not the amount received meets min_amount_out.
C1_OverspendFailsWithFeeEvasion ==
  (SwapMeasured /\ last.amount_spent > last.swap_amount)
    => last.err = "FeeEvasion"

\* C2: whatever the executor did, a swap that spent within its budget and
\* whose output balance delta is below min_amount_out fails with
\* SlippageExceeded, also when the output balance ends lower than it started
\* (stated for a call whose input and output accounts are two accounts).
C2_ShortfallFailsWithSlippageExceeded ==
  (/\ SwapMeasured
   /\ last.inAcc # last.outAcc
   /\ 0 <= last.amount_spent /\ last.amount_spent <= last.swap_amount
   /\ last.amount_received < last.min_amount_out)
    => last.err = "SlippageExceeded"

\* C3: execute_trader_swap is atomic: a call that fails at any step leaves
\* every balance and every TraderState field as it was before the call, and a
\* call that succeeds has credited the platform fee account with the fee;
\* neither the fee without the swap nor the swap without the fee is left.
C3_SwapIsAtomic ==
  [][last'.op = "execute_trader_swap" =>
       IF last'.err = "Ok"
       THEN /\ last'.fee = Fee(last'.amount_in, cfg.platform_fee_bps)
            /\ bal'[last'.feeAcc] = bal[last'.feeAcc] + last'.fee
       ELSE UNCHANGED chain]_vars

\* C3 happens: a swap failed its slippage check after the fee transfer and
\* the executor had moved funds
C3_Witness ==
  /\ last.op = "execute_trader_swap"
  /\ last.err = "SlippageExceeded"
  /\ last.fee > 0
  /\ last.amount_spent > 0

\* C4: a swap succeeds only when its signer is the vault's delegated
\* authority, the TraderState is not paused and is_initialized || is_syncing
\* holds; a call on existing accounts that misses one of these fails with
\* Unauthorized, TraderPaused or TraderNotInitialized and changes nothing;
\* and the pause flag of a living TraderState is cleared by
\* resume_trader_state alone, so no swap succeeds between a pause and the
\* next resume, nor in the Created state.
C4_SwapOnlyByAuthorityWhenActive ==
  [][/\ (last'.op = "execute_trader_swap" /\ last'.err # "AccountNotInitialized") =>
          /\ last'.err = "Ok" =>
               /\ last'.signer = vault.authority
               /\ ~ts.is_paused
               /\ ts.is_initialized \/ ts.is_syncing
          /\ last'.signer # vault.authority =>
               last'.err = "Unauthorized" /\ UNCHANGED chain
          /\ (last'.signer = vault.authority /\ ts.is_paused) =>
               last'.err = "TraderPaused" /\ UNCHANGED chain
          /\ (/\ last'.signer = vault.authority /\ ~ts.is_paused
              /\ ~(ts.is_initialized \/ ts.is_syncing)) =>
               last'.err = "TraderNotInitialized" /\ UNCHANGED chain
     /\ (ts.is_paused /\ ts'.exists /\ ~ts'.is_paused) =>
          last'.op = "resume_trader_state" /\ last'.err = "Ok"]_vars

\* C4 happens: the delegated authority called a swap on a paused TraderState
C4_Witness ==
  /\ last.op = "execute_trader_swap"
  /\ last.signer = vault.authority
  /\ ts.is_paused
  /\ last.err = "TraderPaused"

\* C5: the delegated authority can never extract value: a successful swap
\* lowers the balance of no TraderState-owned account but the declared input
\* account, and no instruction raises the balance of an account the
\* authority owns.
C5_AuthorityExtractsNothing ==
  [][/\ (last'.op = "execute_trader_swap" /\ last'.err = "Ok") =>
          \A a \in TokenAccounts :
            (AccOwner[a] = TraderPDA /\ a # last'.inAcc) => bal'[a] >= bal[a]
     /\ \A a \in TokenAccounts :
          AccOwner[a] = Authority => bal'[a] <= bal[a]]_vars

\* a swap call that passed the caller, status, ownership and topology checks
SwapReachedFeeChecks ==
  /\ last'.op = "execute_trader_swap"
  /\ last'.stage \notin {"accounts", "status", "ownership", "topology"}

\* C12: a swap call that reaches the fee destination check fails with
\* InvalidFeeDestination and changes nothing unless the platform fee account
\* is owned by GlobalConfig.admin and holds the input mint; a swap that
\* succeeds has credited its fee to such an account, and to no other account
\* outside the TraderState's and the executor's reach.
C12_FeeGoesToAdminInInputMint ==
  [][SwapReachedFeeChecks =>
       LET destination_ok ==
             /\ AccOwner[last'.feeAcc] = cfg.admin
             /\ AccMint[last'.feeAcc] = AccMint[last'.inAcc]
       IN  /\ ~destination_ok =>
                 last'.err = "InvalidFeeDestination" /\ UNCHANGED chain
           /\ destination_ok => last'.err # "InvalidFeeDestination"
           /\ last'.err = "Ok" =>
                 /\ destination_ok
                 /\ bal'[last'.feeAcc] = bal[last'.feeAcc] + last'.fee
                 /\ \A a \in TokenAccounts :
                      (AccOwner[a] \in {Admin, Owner, VaultPDA} /\ a # last'.feeAcc)
                        => bal'[a] = bal[a]]_vars

\* C12 happens: a swap on the base asset named the admin's account of the
\* other mint as its fee destination
C12_Witness ==
  /\ last.op = "execute_trader_swap"
  /\ last.feeAcc \in TokenAccounts
  /\ AccOwner[last.feeAcc] = cfg.admin
  /\ AccMint[last.feeAcc] # AccMint[last.inAcc]
  /\ last.err = "InvalidFeeDestination"

\* C13: a successful swap whose output account holds the base asset sets
\* current_value to amount_received (it replaces the value, it does not add to
\* it); a successful swap with any other output leaves current_value as it
\* was; and no swap, successful or not, changes high_water_mark,
\* cumulative_profit, is_paused, is_settled, is_initialized, is_syncing or any
\* other field of the TraderState.
C13_SwapAccounting ==
  [][last'.op = "execute_trader_swap" =>
       IF last'.err = "Ok" /\ AccMint[last'.outAcc] = vault.base_mint
       THEN /\ last'.amount_received = bal'[last'.outAcc] - bal[last'.outAcc]
            /\ ts' = [ts EXCEPT !.current_value = last'.amount_received]
       ELSE ts' = ts]_vars

\* C13 happens: a swap into the base-asset account that already held the
\* funding received 1 unit, and current_value is that 1 unit
C13_Witness ==
  /\ last.op = "execute_trader_swap"
  /\ last.err = "Ok"
  /\ last.outAcc = "tBase"
  /\ last.inAcc = "tAlt"
  /\ last.amount_received = 1
  /\ bal["tBase"] = InitialFunds + 1
  /\ ts.current_value = 1
  /\ ts.high_water_mark = InitialFunds

\* execute_trader_swap returned Ok
SwapSucceeded == last'.op = "execute_trader_swap" /\ last'.err = "Ok"

SwapValidated ==
  /\ last'.op = "execute_trader_swap"
  /\ last'.stage \in {"post_check", "done"}

\* C33: the balances the post-execution validation measures from are, for
\* the input and the output account alike, the ledger balances after the fee
\* debit: when the swap succeeds, amount_spent is the input account's
\* decrease without the fee and amount_received the output account's
\* increase without the fee debit, and when one account is passed as input
\* and as output, what it is measured to have spent is what it is measured
\* not to have received.
C33_SnapshotsAfterFeeDebit ==
  [][/\ SwapSucceeded =>
          LET after_fee(a) == IF a = last'.inAcc THEN bal[a] - last'.fee ELSE bal[a]
          IN  /\ last'.amount_spent = after_fee(last'.inAcc) - bal'[last'.inAcc]
              /\ last'.amount_received = bal'[last'.outAcc] - after_fee(last'.outAcc)
     /\ (SwapValidated /\ last'.inAcc = last'.outAcc) =>
          last'.amount_spent + last'.amount_received = 0]_vars

\* a swap call that reached the executor step
SwapExecuted ==
  /\ last'.op = "execute_trader_swap"
  /\ last'.stage \in {"executor", "post_check", "done"}

\* C35: a swap that names the memo program makes no external call.  Between
\* two distinct accounts of one mint it moves exactly swap_amount from the
\* input to the output, so that amount_spent = amount_received = swap_amount,
\* and it succeeds iff the input holds swap_amount after the fee and
\* swap_amount >= min_amount_out.  Between accounts of different mints
\* nothing but the fee moves and it succeeds iff min_amount_out = 0.  With
\* one account on both sides nothing but the fee could move, and it succeeds
\* iff the fee is 0, the account holds swap_amount and min_amount_out = 0.
C35_MockExecution ==
  [][SwapExecuted =>
       LET inAcc == last'.inAcc
           outAcc == last'.outAcc
           fee == last'.fee
           swap_amount == last'.swap_amount
           funded == bal[inAcc] - fee >= swap_amount
           ok == last'.err = "Ok"
           others == TokenAccounts \ {inAcc, outAcc, last'.feeAcc}
       IN  /\ swap_amount = last'.amount_in - fee
           /\ ok => \A a \in others : bal'[a] = bal[a]
           /\ ok => bal'[last'.feeAcc] = bal[last'.feeAcc] + fee
           /\ IF inAcc = outAcc
              THEN /\ ok <=> (fee = 0 /\ funded /\ last'.min_amount_out = 0)
                   /\ ok => /\ bal' = bal
                             /\ last'.amount_spent = 0
                             /\ last'.amount_received = 0
              ELSE IF AccMint[inAcc] = AccMint[outAcc]
              THEN /\ ok <=> (funded /\ swap_amount >= last'.min_amount_out)
                   /\ ~funded => last'.err = "TokenInsufficientFunds"
                   /\ (funded /\ ~ok) => last'.err = "SlippageExceeded"
                   /\ ok => /\ bal'[inAcc] = bal[inAcc] - last'.amount_in
                             /\ bal'[outAcc] = bal[outAcc] + swap_amount
                             /\ last'.amount_spent = swap_amount
                             /\ last'.amount_received = swap_amount
              ELSE /\ ok <=> last'.min_amount_out = 0
                   /\ ~ok => last'.err = "SlippageExceeded"
                   /\ ok => /\ bal'[inAcc] = bal[inAcc] - fee
                             /\ bal'[outAcc] = bal[outAcc]
                             /\ last'.amount_spent = 0
                             /\ last'.amount_received = 0]_vars

\* C35 happens: a mock swap of 1000 at 10 bps between the TraderState's two
\* base-asset accounts paid a fee of 1 and moved 999
C35_Witness ==
  /\ last.op = "execute_trader_swap"
  /\ last.err = "Ok"
  /\ last.inAcc = "tBase" /\ last.outAcc = "tBase2"
  /\ last.amount_in = 1000 /\ cfg.platform_fee_bps = 10
  /\ last.fee = 1
  /\ last.amount_spent = 999 /\ last.amount_received = 999
  /\ bal["tBase2"] = 999 /\ bal["tBase"] = InitialFunds - 1000

\* C35 as stated: whenever the mints of the input and the output are the
\* same, a mock swap moves swap_amount, measures amount_spent =
\* amount_received = swap_amount and succeeds iff swap_amount >=
\* min_amount_out; when they differ it succeeds iff min_amount_out = 0.
C35_MockAsStated ==
  [][SwapExecuted =>
       IF AccMint[last'.inAcc] = AccMint[last'.outAcc]
       THEN /\ last'.err = "Ok" <=> last'.swap_amount >= last'.min_amount_out
            /\ last'.err = "Ok" =>
                  /\ last'.amount_spent = last'.swap_amount
                  /\ last'.amount_received = last'.swap_amount
       ELSE last'.err = "Ok" <=> last'.min_amount_out = 0]_vars

\* a swap call that reached the ownership validation
SwapReachedOwnership ==
  /\ last'.op = "execute_trader_swap"
  /\ last'.stage \notin {"accounts", "status"}

\* C37: a swap call that reaches the ownership validation is rejected there
\* exactly when one of its two holding accounts is not owned by the
\* TraderState; a call that passes it passes the topology validation,
\* whatever the mints of the two accounts are, and no call ends with
\* InvalidSwapTopology.
C37_OwnershipImpliesTopology ==
  [][/\ last'.op = "execute_trader_swap" =>
          last'.err # "InvalidSwapTopology" /\ last'.stage # "topology"
     /\ SwapReachedOwnership =>
          LET both_owned == /\ AccOwner[last'.inAcc] = TraderPDA
                            /\ AccOwner[last'.outAcc] = TraderPDA
          IN  /\ ~both_owned =>
                    /\ last'.stage = "ownership"
                    /\ last'.err = "InvalidTokenAccountOwner"
              /\ both_owned =>
                    last'.stage \notin {"ownership", "topology"}]_vars

\* C37 happens: a swap with neither side in the base asset, both accounts
\* owned by the TraderState, succeeded
C37_Witness ==
  /\ last.op = "execute_trader_swap"
  /\ last.err = "Ok"
  /\ AccOwner[last.inAcc] = TraderPDA /\ AccOwner[last.outAcc] = TraderPDA
  /\ AccMint[last.inAcc] # vault.base_mint
  /\ AccMint[last.outAcc] # vault.base_mint

\* C38: for every successful execute_trader_swap the fee paid is at least
\* the fee the rate demands of the amount the executor took from the input
\* account: fee >= floor(amount_spent * platform_fee_bps / 10000), where
\* amount_spent is the input account's decrease beyond the fee.
C38_FeeCoversAmountSpent ==
  [][SwapSucceeded =>
       LET moved == bal[last'.inAcc] - bal'[last'.inAcc] - last'.fee
       IN  /\ last'.amount_spent = moved
           /\ moved >= 0
           /\ last'.fee >= (moved * cfg.platform_fee_bps) \div 10000]_vars

\* C38 happens: at a rate of 5000 bps a swap of 1000 paid a fee of 500 and
\* the executor spent all of the remaining 500, on which the rate demands 250
C38_Witness ==
  /\ last.op = "execute_trader_swap"
  /\ last.err = "Ok"
  /\ cfg.platform_fee_bps = 5000
  /\ last.fee = 500
  /\ last.amount_spent = last.swap_amount
  /\ (last.amount_spent * cfg.platform_fee_bps) \div 10000 = 250

-----------------------------------------------------------------------------
(* Properties of the exit path *)

\* the TraderState's holdings outside the base asset
NonBaseHoldings ==
  {a \in open : AccOwner[a] = TraderPDA /\ AccMint[a] # vault.base_mint}

\* C6: whenever withdraw_trader_state succeeds, whatever came before it, the
\* TraderState's base-asset holding at that moment is at least current_value.
C6_WithdrawOnlyWhenCovered ==
  [][(last'.op = "withdraw_trader_state" /\ last'.err = "Ok") =>
       bal["tBase"] >= ts.current_value]_vars

\* C7: in every reachable state, is_settled implies that every non-base
\* holding account of the TraderState has balance zero.
C7_SettledMeansAllInBase ==
  (ts.exists /\ ts.is_settled) => \A a \in NonBaseHoldings : bal[a] = 0

\* a settle_trader_state call signed by the TraderState's owner on accounts
\* that exist
OwnerSettles ==
  /\ last'.op = "settle_trader_state"
  /\ last'.err # "AccountNotInitialized"
  /\ last'.signer = ts.owner

C9_WithdrawNeedsPauseAndSettle ==
  [][last'.op = "withdraw_trader_state" =>
       /\ (/\ last'.err # "AccountNotInitialized" /\ last'.signer = ts.owner
           /\ ~ts.is_paused) =>
            last'.err = "TraderNotPaused" /\ UNCHANGED chain
       /\ (/\ last'.err # "AccountNotInitialized" /\ last'.signer = ts.owner
           /\ ts.is_paused /\ ~ts.is_settled) =>
            last'.err = "NotSettled" /\ UNCHANGED chain
       /\ last'.err = "Ok" =>
            ts.is_paused /\ ts.is_settled /\ settledInLife]_vars

\* C9 happens: the owner asked to withdraw from a paused TraderState that was
\* never settled
C9_Witness ==
  /\ last.op = "withdraw_trader_state"
  /\ last.signer = ts.owner
  /\ ts.is_paused
  /\ ~settledInLife
  /\ last.err = "NotSettled"

\* C10: a swap call that names an input or an output account the TraderState
\* PDA does not own never succeeds; once the caller and status checks have
\* passed it fails with InvalidTokenAccountOwner, whatever the account's mint,
\* before any fee is transferred.
C10_ForeignAccountsRejected ==
  [][last'.op = "execute_trader_swap" =>
       /\ last'.err = "Ok" =>
            AccOwner[last'.inAcc] = TraderPDA /\ AccOwner[last'.outAcc] = TraderPDA
       /\ (/\ last'.err # "AccountNotInitialized"
           /\ last'.signer = vault.authority
           /\ ~ts.is_paused
           /\ ts.is_initialized \/ ts.is_syncing
           /\ \/ AccOwner[last'.inAcc] # TraderPDA
              \/ AccOwner[last'.outAcc] # TraderPDA) =>
            /\ last'.err = "InvalidTokenAccountOwner"
            /\ last'.fee = 0
            /\ UNCHANGED chain]_vars

\* C10 happens: a swap named the vault's base-asset account, which holds the
\* right mint and is not owned by the TraderState, as its output
C10_Witness ==
  /\ last.op = "execute_trader_swap"
  /\ last.outAcc = "vBase"
  /\ AccMint[last.outAcc] = vault.base_mint
  /\ last.err = "InvalidTokenAccountOwner"

-----------------------------------------------------------------------------
(* Properties of the TraderState lifecycle *)

\* C15: the sync phase is a one-way gate.  start_sync succeeds only for the
\* delegated authority on a TraderState that is not initialized, and sets
\* is_syncing and nothing else; finish_sync succeeds only for the delegated
\* authority on a syncing TraderState, and leaves it initialized and not
\* syncing; the authority's start_sync on an initialized TraderState fails
\* with AlreadyInitialized and changes nothing; and is_syncing of a living
\* TraderState turns true by a successful start_sync alone, so never once
\* is_initialized holds.
C15_SyncIsOneWay ==
  [][/\ (last'.op = "start_sync" /\ last'.err = "Ok") =>
          /\ last'.signer = vault.authority
          /\ ~ts.is_initialized
          /\ ts' = [ts EXCEPT !.is_syncing = TRUE]
     /\ (last'.op = "finish_sync" /\ last'.err = "Ok") =>
          /\ last'.signer = vault.authority
          /\ ts.is_syncing /\ ~ts.is_initialized
          /\ ts' = [ts EXCEPT !.is_syncing = FALSE, !.is_initialized = TRUE]
     /\ (/\ last'.op = "start_sync" /\ last'.err # "AccountNotInitialized"
         /\ last'.signer = vault.authority /\ ts.is_initialized) =>
          last'.err = "AlreadyInitialized" /\ UNCHANGED chain
     /\ (~ts.is_syncing /\ ts'.is_syncing) =>
          last'.op = "start_sync" /\ last'.err = "Ok"
     /\ (ts.exists /\ ts.is_initialized /\ ~ts.is_syncing /\ ts'.exists) =>
          ~ts'.is_syncing]_vars

\* C15 happens: after start_sync and finish_sync the delegated authority
\* called start_sync again
C15_Witness ==
  /\ last.op = "start_sync"
  /\ last.signer = vault.authority
  /\ ts.is_initialized /\ ~ts.is_syncing
  /\ last.err = "AlreadyInitialized"

\* a mark_trader_initialized call on accounts that exist
MarkCalled ==
  last'.op = "mark_trader_initialized" /\ last'.err # "AccountNotInitialized"

\* C16: mark_trader_initialized succeeds only when the vault's owner or its
\* delegated authority signs and is_initialized is false, and then sets
\* is_initialized and nothing else; any other signer gets Unauthorized, an
\* owner or authority on an initialized TraderState AlreadyInitialized, and
\* both change nothing; is_initialized of a living TraderState never turns
\* false again, so a second success in the same lifetime is impossible.
C16_MarkInitializedOnce ==
  [][/\ (MarkCalled /\ last'.err = "Ok") =>
          /\ last'.signer \in {vault.owner, vault.authority}
          /\ ~ts.is_initialized
          /\ ts' = [ts EXCEPT !.is_initialized = TRUE]
          /\ UNCHANGED <<cfg, vault, bal, open>>
     /\ (MarkCalled /\ last'.signer \notin {vault.owner, vault.authority}) =>
          last'.err = "Unauthorized" /\ UNCHANGED chain
     /\ (/\ MarkCalled /\ last'.signer \in {vault.owner, vault.authority}
         /\ ts.is_initialized) =>
          last'.err = "AlreadyInitialized" /\ UNCHANGED chain
     /\ (ts.exists /\ ts.is_initialized /\ ts'.exists) => ts'.is_initialized]_vars

\* C16 happens: the owner called mark_trader_initialized on a TraderState
\* that was initialized already, after it had traded, been paused and settled
C16_Witness ==
  /\ last.op = "mark_trader_initialized"
  /\ last.signer = vault.owner
  /\ ts.is_initialized /\ ts.is_paused /\ ts.is_settled
  /\ swaps > 0
  /\ last.err = "AlreadyInitialized"

\* C17: pause_trader_state writes is_paused = true and nothing else,
\* resume_trader_state writes is_paused = false and nothing else:
\* is_initialized, is_syncing, is_settled, current_value, high_water_mark,
\* cumulative_profit and every balance are as before; so a resume that
\* follows the pause of an unpaused TraderState gives back the TraderState as
\* it was before the pause.
C17_PauseResumeFrame ==
  [][/\ (last'.op = "pause_trader_state" /\ last'.err = "Ok") =>
          /\ ts' = [ts EXCEPT !.is_paused = TRUE]
          /\ UNCHANGED <<cfg, vault, bal, open>>
     /\ (last'.op = "resume_trader_state" /\ last'.err = "Ok") =>
          /\ ts' = [ts EXCEPT !.is_paused = FALSE]
          /\ UNCHANGED <<cfg, vault, bal, open>>
          /\ (last.op = "pause_trader_state" /\ last.err = "Ok") =>
               [ts' EXCEPT !.is_paused = TRUE] = ts
     /\ (last'.op \in {"pause_trader_state", "resume_trader_state"}
         /\ last'.err # "Ok") => UNCHANGED chain]_vars

\* C17 happens: a paused, settled and initialized TraderState was resumed and
\* is still settled and initialized
C17_Witness ==
  /\ last.op = "resume_trader_state"
  /\ last.err = "Ok"
  /\ ~ts.is_paused
  /\ ts.is_settled /\ ts.is_initialized

\* C18: the backend can settle: a settle_trader_state call signed by the
\* vault's delegated authority, on a paused TraderState whose base-asset
\* account holds at least current_value, succeeds and sets is_settled.
C18_AuthorityCanSettle ==
  [][(/\ last'.op = "settle_trader_state"
      /\ last'.signer = vault.authority
      /\ vault.exists /\ ts.exists /\ ts.is_paused
      /\ last'.inAcc = Ata(TraderPDA, vault.base_mint)
      /\ last'.inAcc \in open
      /\ bal[last'.inAcc] >= ts.current_value) =>
       last'.err = "Ok" /\ ts'.is_settled]_vars

\* the instructions that take an existing TraderState
TraderStateOps ==
  {"create_trader_ata", "start_sync", "finish_sync", "mark_trader_initialized",
   "pause_trader_state", "resume_trader_state", "execute_trader_swap",
   "settle_trader_state", "withdraw_trader_state", "close_trader_state",
   "close_trader_ata"}

\* C19: a successful withdraw_trader_state moves the whole balance the
\* TraderState's base-asset account held when it was called to the owner's
\* base-asset account, leaves the vault's base-asset balance and every other
\* balance as they were, and closes the TraderState and its base-asset
\* account; and while no TraderState exists every instruction that takes one
\* fails and changes nothing (create_trader_state alone brings it back).
C19_WithdrawPaysOwnerAndDestroys ==
  [][/\ (last'.op = "withdraw_trader_state" /\ last'.err = "Ok") =>
          LET amount == bal["tBase"]
              owner_account == Ata(vault.owner, vault.base_mint)
          IN  /\ last'.amount_in = amount
              /\ bal'[owner_account] = bal[owner_account] + amount
              /\ bal'["tBase"] = 0
              /\ bal'["vBase"] = bal["vBase"]
              /\ \A a \in TokenAccounts \ {"tBase", owner_account} : bal'[a] = bal[a]
              /\ ~ts'.exists
              /\ "tBase" \notin open'
     /\ (~ts.exists /\ last'.op \in TraderStateOps) =>
          last'.err = "AccountNotInitialized" /\ UNCHANGED chain
     /\ (~ts.exists /\ ts'.exists) =>
          last'.op = "create_trader_state" /\ last'.err = "Ok"]_vars

\* C19 happens: a withdrawal paid the owner the TraderState's whole funding
\* through a vault account that held 1 unit before and after
C19_Witness ==
  /\ last.op = "withdraw_trader_state"
  /\ last.err = "Ok"
  /\ last.amount_in = InitialFunds
  /\ bal["oBase"] = InitialFunds
  /\ bal["vBase"] = 1
  /\ ~ts.exists

\* a close_trader_state call signed by the owner on accounts that exist
OwnerCloses ==
  /\ last'.op = "close_trader_state"
  /\ last'.err # "AccountNotInitialized"
  /\ last'.signer = ts.owner

\* C20: the owner's close_trader_state fails with TraderNotPaused and changes
\* nothing unless is_paused; on a paused TraderState it succeeds whatever
\* is_settled, is_initialized and current_value are, moves the whole balance of
\* the TraderState's base-asset account to the vault's base-asset account
\* (nothing when that balance is zero), changes no other balance, and closes
\* the TraderState and its base-asset account: the vault's and the
\* TraderState's base-asset balances add up to the same before and after.
C20_CloseRefundsVault ==
  [][/\ (OwnerCloses /\ ~ts.is_paused) =>
          last'.err = "TraderNotPaused" /\ UNCHANGED chain
     /\ (OwnerCloses /\ ts.is_paused) => last'.err = "Ok"
     /\ (last'.op = "close_trader_state" /\ last'.err = "Ok") =>
          /\ ts.is_paused
          /\ last'.amount_in = bal["tBase"]
          /\ bal'["vBase"] = bal["vBase"] + bal["tBase"]
          /\ bal'["tBase"] = 0
          /\ bal'["vBase"] + bal'["tBase"] = bal["vBase"] + bal["tBase"]
          /\ \A a \in TokenAccounts \ {"tBase", "vBase"} : bal'[a] = bal[a]
          /\ ~ts'.exists
          /\ "tBase" \notin open']_vars

\* C20 happens: a TraderState that had traded and was never settled was
\* closed, and its holding, which was not its current_value, is in the vault
C20_Witness ==
  /\ last.op = "close_trader_state"
  /\ last.err = "Ok"
  /\ ~settledInLife
  /\ swaps > 0
  /\ last.amount_in = InitialFunds + 1
  /\ bal["vBase"] = InitialFunds + 1
  /\ ~ts.exists

\* a create_trader_state call signed by the vault's owner on a vault whose
\* base-asset account exists
OwnerCreates ==
  /\ last'.op = "create_trader_state"
  /\ last'.err # "AccountNotInitialized"
  /\ last'.signer = vault.owner

\* C21: a successful create_trader_state(amount) is signed by the vault's
\* owner and yields a TraderState in state Created (is_paused, is_settled,
\* is_initialized and is_syncing all false) with owner = vault.owner, vault =
\* that vault, current_value = high_water_mark = amount and cumulative_profit
\* = 0; it debits the vault's base-asset account by exactly amount, leaves
\* the TraderState's base-asset account holding amount and changes no other
\* balance; the owner's call fails and changes nothing when a TraderState for
\* the same (owner, trader) exists already or when the vault's base-asset
\* balance is below amount.
C21_CreateFundsFromVault ==
  [][/\ (last'.op = "create_trader_state" /\ last'.err = "Ok") =>
          LET amount == last'.amount_in
          IN  /\ last'.signer = vault.owner
              /\ ~ts.exists
              /\ ts' = [exists |-> TRUE, owner |-> vault.owner, vault |-> VaultPDA,
                        current_value |-> amount, high_water_mark |-> amount,
                        cumulative_profit |-> 0, is_paused |-> FALSE,
                        is_settled |-> FALSE, is_initialized |-> FALSE,
                        is_syncing |-> FALSE]
              /\ bal["vBase"] >= amount
              /\ bal'["vBase"] = bal["vBase"] - amount
              /\ bal'["tBase"] = amount
              /\ \A a \in TokenAccounts \ {"vBase", "tBase"} : bal'[a] = bal[a]
              /\ UNCHANGED <<cfg, vault>>
     /\ (OwnerCreates /\ ts.exists) =>
          last'.err = "AlreadyInUse" /\ UNCHANGED chain
     /\ (OwnerCreates /\ ~ts.exists /\ "tBase" \notin open
         /\ bal["vBase"] < InitialFunds) =>
          last'.err = "TokenInsufficientFunds" /\ UNCHANGED chain]_vars

\* C21 happens: the owner funded a TraderState with the vault's whole
\* balance, and then asked to create it a second time
C21_Witness ==
  /\ last.op = "create_trader_state"
  /\ last.signer = vault.owner
  /\ last.err = "AlreadyInUse"
  /\ ts.exists /\ ~ts.is_paused /\ ~ts.is_initialized
  /\ ts.current_value = InitialFunds
  /\ bal["tBase"] = InitialFunds /\ bal["vBase"] = 0

\* a close_trader_ata call signed by the owner on an open account of the
\* TraderState
OwnerClosesHolding ==
  /\ last'.op = "close_trader_ata"
  /\ last'.err \notin {"AccountNotInitialized", "ConstraintTokenOwner"}
  /\ last'.signer = ts.owner

\* the TraderState-owned accounts a step closes
HoldingsClosed == {a \in open \ open' : AccOwner[a] = TraderPDA}

\* C22: close_trader_ata succeeds only on a paused TraderState and on a
\* holding whose balance is zero, and then closes that account and changes
\* nothing else; the owner's call fails with TraderNotPaused on an unpaused
\* TraderState and with NonZeroBalance on a paused one whose holding is not
\* empty, and the account and every balance remain; so every step that
\* closes a holding of the TraderState is taken while it is paused, and the
\* holding was empty or its whole balance went to the vault's or the owner's
\* account.
C22_CloseOnlyEmptyWhenPaused ==
  [][/\ (last'.op = "close_trader_ata" /\ last'.err = "Ok") =>
          /\ ts.is_paused
          /\ bal[last'.inAcc] = 0
          /\ AccOwner[last'.inAcc] = TraderPDA
          /\ open' = open \ {last'.inAcc}
          /\ UNCHANGED <<cfg, vault, ts, bal>>
     /\ (OwnerClosesHolding /\ ~ts.is_paused) =>
          last'.err = "TraderNotPaused" /\ UNCHANGED chain
     /\ (OwnerClosesHolding /\ ts.is_paused /\ bal[last'.inAcc] # 0) =>
          last'.err = "NonZeroBalance" /\ UNCHANGED chain
     /\ (OwnerClosesHolding /\ ts.is_paused /\ bal[last'.inAcc] = 0) =>
          last'.err = "Ok"
     /\ \A a \in HoldingsClosed :
          /\ ts.is_paused
          /\ bal'[a] = 0 \/ last'.op = "close_trader_ata"
          /\ \/ bal[a] = 0
             \/ \E d \in {"vBase", "oBase"} : bal'[d] = bal[d] + bal[a]]_vars

\* C22 happens: the owner asked to close the paused TraderState's secondary
\* holding, which a swap had left with a balance
C22_Witness ==
  /\ last.op = "close_trader_ata"
  /\ last.signer = ts.owner
  /\ ts.is_paused
  /\ "tAlt" \in open /\ bal["tAlt"] > 0
  /\ last.err = "NonZeroBalance"

-----------------------------------------------------------------------------
(* Properties of the owner-level operations *)

\* the operations that withdraw value or belong to the owner alone
OwnerOps ==
  {"withdraw_token", "withdraw_sol", "withdraw_trader_state", "close_trader_state",
   "pause_trader_state", "resume_trader_state", "close_trader_ata", "close_vault_ata"}

\* an owner-level operation, on accounts that exist, signed by someone who is
\* not the vault's owner
NonOwnerCalls ==
  /\ last'.op \in OwnerOps
  /\ last'.err # "AccountNotInitialized"
  /\ last'.signer # vault.owner

OwnerCalled(op) ==
  /\ last'.op = op
  /\ ts.exists
  /\ last'.signer = ts.owner

\* the base-asset accounts close_trader_state moves the holding between
ExitAccounts == {Ata(TraderPDA, BaseMint), Ata(VaultPDA, BaseMint)}

\* C39: the owner can take a TraderState's base-asset holding back without
\* the delegated authority.  Whenever a TraderState exists its owner is the
\* owner of its vault; pause_trader_state signed by the owner succeeds in
\* every such state, whatever is_initialized, is_syncing, is_settled and
\* current_value are; close_trader_state signed by the owner of a paused
\* TraderState succeeds when the TraderState's and the vault's base-asset
\* accounts are open, destroys the TraderState and leaves its whole
\* base-asset holding in the vault's account, and fails with
\* AccountNotInitialized when one of them has been closed; the owner can
\* open the vault's account again with init_vault_ata and the TraderState's
\* with create_trader_ata; and the owner can withdraw from the vault's
\* account what it holds.
C39_OwnerCanExit ==
  [][/\ ts'.exists => vault'.exists /\ ts'.owner = vault'.owner
     /\ (Ready /\ ts.exists) =>
          ENABLED (PauseTraderState(ts.owner) /\ last'.err = "Ok")
     /\ OwnerCalled("pause_trader_state") =>
          /\ last'.err = "Ok"
          /\ ts' = [ts EXCEPT !.is_paused = TRUE]
          /\ UNCHANGED <<vault, bal, open>>
     /\ (OwnerCalled("close_trader_state") /\ ts.is_paused) =>
          IF ExitAccounts \subseteq open
          THEN /\ last'.err = "Ok"
               /\ ~ts'.exists
               /\ bal'["vBase"] = bal["vBase"] + bal["tBase"]
               /\ bal'["tBase"] = 0
               /\ "tBase" \notin open'
          ELSE last'.err = "AccountNotInitialized" /\ UNCHANGED chain
     /\ (/\ last'.op = "init_vault_ata" /\ vault.exists
         /\ last'.signer = vault.owner /\ "vBase" \notin open) =>
          /\ last'.err = "Ok"
          /\ open' = open \cup {"vBase"}
          /\ UNCHANGED <<vault, ts, bal>>
     /\ OwnerCalled("create_trader_ata") =>
          /\ last'.err = "Ok"
          /\ open \subseteq open'
          /\ UNCHANGED <<vault, ts, bal>>
     /\ (/\ last'.op = "withdraw_token" /\ vault.exists
         /\ last'.signer = vault.owner /\ "vBase" \in open
         /\ \A amount \in Amounts : bal["vBase"] >= amount) =>
          /\ last'.err = "Ok"
          /\ bal'["oBase"] = bal["oBase"] + last'.amount_in
          /\ bal'["vBase"] = bal["vBase"] - last'.amount_in]_vars

\* C39 happens: the owner closed a TraderState that had never been settled,
\* and the vault's account received the whole funding back
C39_Witness ==
  /\ last.op = "close_trader_state"
  /\ last.err = "Ok"
  /\ last.signer = Owner
  /\ ~settledInLife
  /\ ~ts.exists
  /\ last.amount_in = InitialFunds
  /\ bal["vBase"] = InitialFunds

\* C39 as stated: from every state in which a TraderState exists, pause and
\* then close, both signed by the owner, succeed.
C39_PauseThenClose ==
  [][/\ OwnerCalled("pause_trader_state") => last'.err = "Ok"
     /\ (OwnerCalled("close_trader_state") /\ ts.is_paused) =>
          last'.err = "Ok" /\ ~ts'.exists]_vars

-----------------------------------------------------------------------------
(* Properties of the vault policy *)

\* the sequence holds no element twice
NoDuplicates(seq) ==
  \A i \in 1..Len(seq), j \in 1..Len(seq) : seq[i] = seq[j] => i = j

\* the elements of the sequence
Elements(seq) == {seq[i] : i \in 1..Len(seq)}

\* C23: the whitelist never holds a mint twice; the owner's add_allowed_mint
\* and remove_allowed_mint on an existing vault succeed; an add of a mint the
\* whitelist holds and a remove of one it does not hold leave the vault as
\* it was; an add of a mint it does not hold appends that mint and keeps the
\* rest, a remove of one it holds removes that mint and keeps the rest; so a
\* second add(x) leaves what the first one left.
C23_WhitelistIdempotent ==
  [][/\ NoDuplicates(vault'.allowed_mints)
     /\ (/\ last'.op \in {"add_allowed_mint", "remove_allowed_mint"}
         /\ vault.exists /\ last'.signer = vault.owner) => last'.err = "Ok"
     /\ (last'.op = "add_allowed_mint" /\ last'.err = "Ok") =>
          /\ Elements(vault'.allowed_mints)
               = Elements(vault.allowed_mints) \cup {last'.mint}
          /\ Contains(vault.allowed_mints, last'.mint) => vault' = vault
          /\ ~Contains(vault.allowed_mints, last'.mint) =>
               vault' = [vault EXCEPT !.allowed_mints = Append(@, last'.mint)]
          /\ (last.op = "add_allowed_mint" /\ last.err = "Ok"
              /\ last.mint = last'.mint) => vault' = vault
     /\ (last'.op = "remove_allowed_mint" /\ last'.err = "Ok") =>
          /\ Elements(vault'.allowed_mints)
               = Elements(vault.allowed_mints) \ {last'.mint}
          /\ ~Contains(vault.allowed_mints, last'.mint) => vault' = vault
          /\ Len(vault'.allowed_mints)
               = Len(vault.allowed_mints)
                   - (IF Contains(vault.allowed_mints, last'.mint) THEN 1 ELSE 0)
     /\ (last'.op \in {"add_allowed_mint", "remove_allowed_mint"}) =>
          UNCHANGED <<cfg, ts, bal, open>>]_vars

\* C23 happens: the last instruction added a mint that stands before another
\* one in the whitelist, so it was there already, and it is there once
C23_Witness ==
  /\ last.op = "add_allowed_mint"
  /\ last.err = "Ok"
  /\ last.mint = AltMint
  /\ vault.allowed_mints = <<AltMint, BaseMint>>

\* the instructions that write the vault's whitelist and pause flag
PolicyOps == {"add_allowed_mint", "remove_allowed_mint", "toggle_pause"}

C29_GlobalConfigIsFixed ==
  [][/\ (last'.op = "initialize_global_config" /\ last'.err = "Ok") =>
          /\ ~cfg.exists
          /\ cfg' = [exists |-> TRUE, admin |-> last'.signer,
                     platform_fee_bps |-> 10, performance_fee_bps |-> 2000,
                     legacy_trading_enabled |-> FALSE]
     /\ (last'.op = "initialize_global_config" /\ cfg.exists) =>
          last'.err # "Ok" /\ UNCHANGED chain
     /\ cfg.exists =>
          cfg' = [cfg EXCEPT !.legacy_trading_enabled = cfg'.legacy_trading_enabled]
     /\ cfg'.exists =>
          cfg'.platform_fee_bps = 10 /\ cfg'.performance_fee_bps = 2000
     /\ cfg'.legacy_trading_enabled # cfg.legacy_trading_enabled =>
          /\ last'.op = "toggle_legacy_trading" /\ last'.err = "Ok"
          /\ last'.signer = cfg.admin
     /\ (last'.op = "toggle_legacy_trading" /\ cfg.exists) =>
          IF last'.signer = cfg.admin
          THEN /\ last'.err = "Ok"
               /\ cfg' = [cfg EXCEPT !.legacy_trading_enabled = ~cfg.legacy_trading_enabled]
               /\ UNCHANGED <<vault, ts, bal, open>>
          ELSE last'.err = "Unauthorized" /\ UNCHANGED chain]_vars

\* C29 happens: the GlobalConfig was initialized by the signer that is the
\* vault's delegated authority, who switched the legacy flag on; then the
\* signer called Admin asked to toggle it and was refused
C29_Witness ==
  /\ last.op = "toggle_legacy_trading"
  /\ cfg.exists /\ cfg.admin = Authority
  /\ cfg.legacy_trading_enabled
  /\ cfg.platform_fee_bps = DefaultPlatformFeeBps
  /\ last.signer = Admin
  /\ last.err = "Unauthorized"

-----------------------------------------------------------------------------
(* Properties of the legacy path *)

\* the last step was an execute_swap call whose accounts passed validation
LegacyCalled == last'.op = "execute_swap" /\ last'.stage # "accounts"

\* C25: execute_swap succeeds only while legacy_trading_enabled is true; a
\* call whose accounts pass validation while the flag is false fails with
\* LegacyTradingDisabled, whoever signs it and whether or not the vault is
\* paused; every failing call leaves every balance and account as it was;
\* initialize_global_config leaves the flag false and only a successful
\* toggle_legacy_trading, signed by the admin, changes it: so no legacy swap
\* succeeds before the admin has switched the flag on.
C25_LegacyGate ==
  [][/\ (last'.op = "execute_swap" /\ last'.err = "Ok") =>
          cfg.exists /\ cfg.legacy_trading_enabled
     /\ (LegacyCalled /\ ~cfg.legacy_trading_enabled) =>
          last'.err = "LegacyTradingDisabled"
     /\ (last'.op = "execute_swap" /\ last'.err # "Ok") => UNCHANGED chain
     /\ (last'.op = "initialize_global_config" /\ last'.err = "Ok") =>
          ~cfg'.legacy_trading_enabled
     /\ cfg'.legacy_trading_enabled # cfg.legacy_trading_enabled =>
          /\ last'.op = "toggle_legacy_trading" /\ last'.err = "Ok"
          /\ last'.signer = cfg.admin]_vars

\* C25 happens: with the flag off, the delegated authority called
\* execute_swap on an unpaused, funded vault with accounts that pass every
\* other check
C25_Witness ==
  /\ last.op = "execute_swap"
  /\ cfg.exists /\ ~cfg.legacy_trading_enabled
  /\ last.signer = vault.authority
  /\ ~vault.is_paused
  /\ last.inAcc = "vBase" /\ last.outAcc = "vAlt"
  /\ Contains(vault.allowed_mints, AltMint)
  /\ bal["vBase"] = InitialFunds
  /\ last.err = "LegacyTradingDisabled"

\* C26: execute_swap operates on vault-owned accounts only: a call succeeds
\* only if its input and its output token account are both owned by the
\* vault PDA, and a call that names an input or an output account of any
\* other owner is rejected.
C26_LegacyOnlyVaultAccounts ==
  [][last'.op = "execute_swap" =>
       /\ last'.err = "Ok" =>
            AccOwner[last'.inAcc] = VaultPDA /\ AccOwner[last'.outAcc] = VaultPDA
       /\ (\/ AccOwner[last'.inAcc] # VaultPDA
           \/ AccOwner[last'.outAcc] # VaultPDA) => last'.err # "Ok"]_vars

\* the mint is the vault's base mint or on its whitelist
Allowed(mint) == mint = vault.base_mint \/ Contains(vault.allowed_mints, mint)

LegacySucceeded == last'.op = "execute_swap" /\ last'.err = "Ok"

\* C31: a legacy execute_swap succeeds only if the output account's balance
\* ends at least min_amount_out above its balance before the call, so that
\* it has not decreased, and the input account's balance has decreased,
\* platform fee included, by at most amount_in.
C31_LegacyPostBounds ==
  [][LegacySucceeded =>
       /\ bal'[last'.outAcc] - bal[last'.outAcc] >= last'.min_amount_out
       /\ bal'[last'.outAcc] >= bal[last'.outAcc]
       /\ bal[last'.inAcc] - bal'[last'.inAcc] <= last'.amount_in]_vars

-----------------------------------------------------------------------------
(* The fee computation at machine width *)

\* Numbers wider than the checker's integers are sequences of limbs, least
\* significant first, each limb below LimbBase = 2^14.
LimbBase == 16384
\* limbs that hold a u64 (5 * 14 = 70 bits) and a u128 (10 * 14 = 140 bits)
U64Limbs == 5
U128Limbs == 10
\* 2^(64 - 4 * 14) and 2^(128 - 9 * 14): the range of the top limb
U64TopLimb == 256
U128TopLimb == 4

RECURSIVE ToLimbs(_, _)
\* the n-limb representation of a small natural number
ToLimbs(v, n) ==
  IF n = 0 THEN <<>> ELSE <<v % LimbBase>> \o ToLimbs(v \div LimbBase, n - 1)

\* zero-extension to n limbs (`as u128`)
Widen(x, n) == x \o [i \in 1..(n - Len(x)) |-> 0]

RECURSIVE MulCarry(_, _, _)
\* x * k + c for a limb sequence x and small k, c; two limbs longer than x
MulCarry(x, k, c) ==
  IF x = <<>> THEN <<c % LimbBase, c \div LimbBase>>
  ELSE LET p == Head(x) * k + c
       IN  <<p % LimbBase>> \o MulCarry(Tail(x), k, p \div LimbBase)

RECURSIVE DivRem(_, _)
\* <<quotient, remainder>> of the limb sequence x by the small divisor d
DivRem(x, d) ==
  IF x = <<>> THEN <<(<<>>), 0>>
  ELSE LET hi == DivRem(Tail(x), d)
           cur == hi[2] * LimbBase + Head(x)
       IN  <<(<<cur \div d>>) \o hi[1], cur % d>>

RECURSIVE LessLimbs(_, _)
\* x < y for limb sequences of one length
LessLimbs(x, y) ==
  IF x = <<>> THEN FALSE
  ELSE IF Tail(x) = Tail(y) THEN Head(x) < Head(y)
  ELSE LessLimbs(Tail(x), Tail(y))

LeqLimbs(x, y) == x = y \/ LessLimbs(x, y)

RECURSIVE SubBorrow(_, _, _)
\* x - y - b for limb sequences of one length with x >= y + b
SubBorrow(x, y, b) ==
  IF x = <<>> THEN <<>>
  ELSE LET d == Head(x) - Head(y) - b
       IN  <<(d + LimbBase) % LimbBase>>
             \o SubBorrow(Tail(x), Tail(y), IF d < 0 THEN 1 ELSE 0)

RECURSIVE AddCarry(_, _, _)
\* x + y + c for limb sequences of one length; one limb longer
AddCarry(x, y, c) ==
  IF x = <<>> THEN <<c>>
  ELSE LET t == Head(x) + Head(y) + c
       IN  <<t % LimbBase>> \o AddCarry(Tail(x), Tail(y), t \div LimbBase)

\* the value fits 128 bits: what u128::checked_mul requires of the product
FitsU128(x) ==
  /\ \A i \in (U128Limbs + 1)..Len(x) : x[i] = 0
  /\ x[U128Limbs] < U128TopLimb

\* `as u64`: the low 64 bits
TruncU64(x) ==
  [i \in 1..U64Limbs |-> IF i = U64Limbs THEN x[i] % U64TopLimb ELSE x[i]]

\* u64::MAX
U64Max == [i \in 1..U64Limbs |-> IF i = U64Limbs THEN U64TopLimb - 1 ELSE LimbBase - 1]

\* a fee computation that multiplies in 64 bits
FeeComputationNarrow(amount_in, fee_bps) ==
  LET product == TruncU64(MulCarry(amount_in, fee_bps, 0))
      fee == DivRem(product, BpsDenominator)[1]
  IN  IF LessLimbs(amount_in, fee)
      THEN [err |-> "FeeEvasion", fee |-> fee, swap_amount |-> ToLimbs(0, U64Limbs)]
      ELSE [err |-> "Ok", fee |-> fee, swap_amount |-> SubBorrow(amount_in, fee, 0)]

\* let fee = (amount_in as u128).checked_mul(fee_bps as u128).unwrap()
\*             .checked_div(10000).unwrap() as u64;
\* let swap_amount = amount_in.checked_sub(fee).ok_or(ErrorCode::FeeEvasion)?;
FeeComputation(amount_in, fee_bps) ==
  LET product == MulCarry(Widen(amount_in, U128Limbs), fee_bps, 0)
      fee == TruncU64(DivRem(product, BpsDenominator)[1])
  IN  IF ~FitsU128(product)
      THEN [err |-> "Panic", fee |-> ToLimbs(0, U64Limbs),
            swap_amount |-> ToLimbs(0, U64Limbs)]
      ELSE IF LessLimbs(amount_in, fee)
      THEN [err |-> "FeeEvasion", fee |-> fee, swap_amount |-> ToLimbs(0, U64Limbs)]
      ELSE [err |-> "Ok", fee |-> fee, swap_amount |-> SubBorrow(amount_in, fee, 0)]

\* amount_in values below 2^28
SmallAmounts == {0, 1, 2, 9, 999, 1000, 1001, 9999, 10000, 10001, 19999, 16383, 16384, 1000000}

\* amount_in values of the fee computation: small ones, the u64 values around
\* the powers of LimbBase and around 2^63, and the ones at the top of the range
U64Samples ==
  {ToLimbs(v, U64Limbs) : v \in SmallAmounts}
    \cup {[i \in 1..U64Limbs |-> IF i = k THEN t ELSE 0] :
            k \in 2..U64Limbs, t \in {1, U64TopLimb \div 2, U64TopLimb - 1}}
    \cup {SubBorrow(U64Max, ToLimbs(v, U64Limbs), 0) : v \in {0, 1, 9999, 10000}}

\* platform_fee_bps values in 0..10000
FeeBpsSamples == {0, 1, 10, 30, 9999, BpsDenominator}

\* the fee computation of execute_trader_swap, applied to every sampled
\* amount_in under every sampled fee rate
FeeInit ==
  /\ cfg \in {[exists |-> TRUE, admin |-> Admin, platform_fee_bps |-> b,
               performance_fee_bps |-> DefaultPerformanceFeeBps,
               legacy_trading_enabled |-> FALSE] : b \in FeeBpsSamples}
  /\ vault = NoVault
  /\ ts = NoTrader
  /\ bal = [a \in TokenAccounts |-> 0]
  /\ open = {}
  /\ last = Call("init", "none", "Ok")
  /\ settledInLife = FALSE
  /\ swaps = 0

ComputeFee(amount_in) ==
  LET r == FeeComputation(amount_in, cfg.platform_fee_bps)
  IN  /\ last' = [Call("fee_computation", "none", r.err) EXCEPT
                    !.amount_in = amount_in, !.fee = r.fee,
                    !.swap_amount = r.swap_amount]
      /\ UNCHANGED <<cfg, vault, ts, bal, open, settledInLife, swaps>>

FeeNext == \E amount_in \in U64Samples : ComputeFee(amount_in)

FeeSpec == FeeInit /\ [][FeeNext]_vars

\* the limb sequence holds a number below 2^17, whose product with a rate of
\* 10000 bps the checker's integers can hold
IsSmall(x) == x[2] < 8 /\ \A i \in 3..Len(x) : x[i] = 0

\* the number a small limb sequence holds
FromLimbs(x) == x[1] + x[2] * LimbBase

\* C11: for every u64 amount_in and every platform_fee_bps in 0..10000 the
\* fee computation neither overflows nor fails, fee is
\* floor(amount_in * platform_fee_bps / 10000) (10000 * fee <= amount_in * bps
\* < 10000 * fee + 10000 in exact arithmetic), fee <= amount_in, swap_amount
\* is amount_in - fee and fee + swap_amount = amount_in; on amounts the
\* instruction model uses, it is the Fee of that model.
C11_FeeIsFloorOfProduct ==
  last.op = "fee_computation" =>
    LET exact == MulCarry(Widen(last.amount_in, U128Limbs), cfg.platform_fee_bps, 0)
        wfee == Widen(last.fee, U128Limbs)
    IN  /\ last.err = "Ok"
        /\ LeqLimbs(MulCarry(wfee, BpsDenominator, 0), exact)
        /\ LessLimbs(exact, MulCarry(wfee, BpsDenominator, BpsDenominator))
        /\ LeqLimbs(last.fee, last.amount_in)
        /\ LeqLimbs(last.swap_amount, last.amount_in)
        /\ AddCarry(last.fee, last.swap_amount, 0) = Widen(last.amount_in, U64Limbs + 1)
        /\ IsSmall(last.amount_in) =>
             /\ IsSmall(last.fee)
             /\ FromLimbs(last.fee) = Fee(FromLimbs(last.amount_in), cfg.platform_fee_bps)

\* C11 happens: the fee of u64::MAX at the full rate of 10000 bps was computed
C11_Witness ==
  /\ last.op = "fee_computation"
  /\ last.amount_in = U64Max
  /\ cfg.platform_fee_bps = BpsDenominator
  /\ last.fee = U64Max
  /\ last.swap_amount = ToLimbs(0, U64Limbs)

-----------------------------------------------------------------------------
(* The fee computation over the whole range of platform_fee_bps *)

\* u16::MAX, the largest value the field platform_fee_bps holds
U16Max == 65535

\* platform_fee_bps values in 0..65535
WideFeeBpsSamples ==
  {0, DefaultPlatformFeeBps, BpsDenominator, BpsDenominator + 1,
   2 * BpsDenominator, U16Max}

\* a GlobalConfig account holding any of the sampled rates
WideFeeInit ==
  /\ cfg \in {[exists |-> TRUE, admin |-> Admin, platform_fee_bps |-> b,
               performance_fee_bps |-> DefaultPerformanceFeeBps,
               legacy_trading_enabled |-> FALSE] : b \in WideFeeBpsSamples}
  /\ vault = NoVault
  /\ ts = NoTrader
  /\ bal = [a \in TokenAccounts |-> 0]
  /\ open = {}
  /\ last = Call("init", "none", "Ok")
  /\ settledInLife = FALSE
  /\ swaps = 0

\* the fee computation of execute_trader_swap, applied to every sampled
\* amount_in under every sampled value of the u16 field
WideFeeSpec == WideFeeInit /\ [][FeeNext]_vars

-----------------------------------------------------------------------------
(* The instruction introspection of execute_swap *)

\* byte values of a payload tail
PayloadBytes == {1, 2, 3}

\* discriminator, amount_in and min_amount_out: 24 bytes the payload step
\* does not read
Header == [i \in 1..HeaderLen |-> 0]

\* instruction data: a header followed by a payload tail, possibly empty
InstructionData ==
  {Header \o t : t \in UNION {[1..n -> PayloadBytes] : n \in 0..MaxPayloadLen}}

\* load_instruction_at_checked(load_current_index_checked(..)): the sysvar
\* holds the index of the transaction's top-level instruction that is
\* executing, which is execute_swap's own instruction when the program is
\* invoked directly and the caller's instruction when it is invoked by another
\* program
CurrentInstructionData(own_data, via_cpi, top_level_data) ==
  IF via_cpi THEN top_level_data ELSE own_data

\* the length check and the slice of the payload handed to the executor
PayloadStep(current_ix_data) ==
  IF Len(current_ix_data) > HeaderLen
  THEN [err |-> "Ok",
        jupiter_data |-> SubSeq(current_ix_data, HeaderLen + 1, Len(current_ix_data))]
  ELSE [err |-> "InvalidInstructionData", jupiter_data |-> <<>>]

\* the payload step of an execute_swap call with the given own data
IntrospectInstruction(own_data, via_cpi, top_level_data) ==
  LET r == PayloadStep(CurrentInstructionData(own_data, via_cpi, top_level_data))
  IN  /\ last' = Call("execute_swap_payload", "none", r.err)
                    @@ [own_data |-> own_data, via_cpi |-> via_cpi,
                        jupiter_data |-> r.jupiter_data]
      /\ UNCHANGED <<cfg, vault, ts, bal, open, settledInLife, swaps>>

IntrospectionNext ==
  \E own_data \in InstructionData, via_cpi \in BOOLEAN :
    \E top_level_data \in (IF via_cpi THEN InstructionData ELSE {own_data}) :
      IntrospectInstruction(own_data, via_cpi, top_level_data)

\* the payload step of execute_swap, applied to every instruction data of
\* the bounded set, invoked directly and through another program
IntrospectionSpec == Init /\ [][IntrospectionNext]_vars

\* C36: an execute_swap whose own instruction data is 24 bytes or shorter
\* fails with InvalidInstructionData at the payload step, and when its data
\* is longer the executor receives exactly its bytes from offset 24 to the
\* end.
C36_PayloadFromOwnData ==
  last.op = "execute_swap_payload" =>
    IF Len(last.own_data) <= HeaderLen
    THEN last.err = "InvalidInstructionData"
    ELSE /\ last.err = "Ok"
         /\ last.jupiter_data
              = SubSeq(last.own_data, HeaderLen + 1, Len(last.own_data))

-----------------------------------------------------------------------------
(* Properties of the refactoring *)

\* C30: the instructions of instructions/*.rs behave as their inline
\* versions in lib.rs: a whitelist edit and a vault pause fail or succeed as
\* the account validation of lib.rs decides for the same signer and vault,
\* and an execute_swap whose accounts all deserialize is rejected by the
\* account constraints exactly when the constraints of lib.rs reject it,
\* with the same error
C30_RefactorPreservesBehaviour ==
  [][/\ last'.op \in {"add_allowed_mint", "remove_allowed_mint"} =>
          last'.err = LibManageWhitelistError(last'.signer)
     /\ last'.op = "toggle_pause" =>
          last'.err = LibTogglePauseError(last'.signer)
     /\ (last'.op = "execute_swap" /\ last'.err # "AccountNotInitialized") =>
          LET e == LibExecuteSwapConstraintError(last'.signer, last'.inAcc,
                                                 last'.outAcc)
          IN  IF e # "Ok" THEN last'.stage = "accounts" /\ last'.err = e
              ELSE last'.stage # "accounts"]_vars

-----------------------------------------------------------------------------
(* The legacy fee computation at machine width *)

\* the value fits 64 bits: what u64::checked_mul requires of the product
FitsU64(x) ==
  /\ \A i \in (U64Limbs + 1)..Len(x) : x[i] = 0
  /\ x[U64Limbs] < U64TopLimb

\* let fee_amount = amount_in.checked_mul(10).unwrap().checked_div(10000).unwrap();
LegacyFeeComputation(amount_in) ==
  LET product == MulCarry(amount_in, LegacyFeeBps, 0)
      fee_amount == TruncU64(DivRem(product, BpsDenominator)[1])
  IN  IF ~FitsU64(product)
      THEN [err |-> "Panic", fee |-> ToLimbs(0, U64Limbs)]
      ELSE [err |-> "Ok", fee |-> fee_amount]

\* floor(u64::MAX / 10), the largest amount_in whose product with 10 fits
\* 64 bits
LegacyMulLimit == TruncU64(DivRem(U64Max, LegacyFeeBps)[1])

\* amount_in values of the legacy fee computation: those of U64Samples, the
\* limit of the 64-bit multiplication and its successor
LegacyFeeSamples ==
  U64Samples \cup {LegacyMulLimit,
                   TruncU64(AddCarry(LegacyMulLimit, ToLimbs(1, U64Limbs), 0))}

ComputeLegacyFee(amount_in) ==
  LET r == LegacyFeeComputation(amount_in)
  IN  /\ last' = [Call("legacy_fee_computation", "none", r.err) EXCEPT
                    !.amount_in = amount_in, !.fee = r.fee]
      /\ UNCHANGED <<cfg, vault, ts, bal, open, settledInLife, swaps>>

LegacyFeeNext == \E amount_in \in LegacyFeeSamples : ComputeLegacyFee(amount_in)

\* the fee computation of execute_swap, applied to every sampled amount_in
\* under every sampled platform_fee_bps of the GlobalConfig
LegacyFeeSpec == FeeInit /\ [][LegacyFeeNext]_vars

\* C28: for every u64 amount_in and whatever platform_fee_bps is, the fee
\* computation of execute_swap yields fee = floor(amount_in * 10 / 10000)
\* (10000 * fee <= amount_in * 10 < 10000 * fee + 10000 in exact
\* arithmetic); on amounts the instruction model uses, it is the LegacyFee
\* of that model.
C28_LegacyFeeIsTenBps ==
  last.op = "legacy_fee_computation" =>
    LET exact == MulCarry(Widen(last.amount_in, U128Limbs), LegacyFeeBps, 0)
        wfee == Widen(last.fee, U128Limbs)
    IN  /\ last.err = "Ok"
        /\ LeqLimbs(MulCarry(wfee, BpsDenominator, 0), exact)
        /\ LessLimbs(exact, MulCarry(wfee, BpsDenominator, BpsDenominator))
        /\ IsSmall(last.amount_in) =>
             /\ IsSmall(last.fee)
             /\ FromLimbs(last.fee) = LegacyFee(FromLimbs(last.amount_in))

-----------------------------------------------------------------------------
(* The vault's pause flag and the two swap paths *)

\* the owner has flipped vault.is_paused: the states before and after the
\* step differ in that flag (and in the record of the last call) only
PauseFlipped == last'.op = "toggle_pause" /\ last'.err = "Ok"

\* execute_trader_swap gives the same outcome and leaves the same ledger and
\* TraderState in the state before and in the state after the step
TraderSwapUnaffected ==
  \A signer \in Signers, inAcc \in PauseAccounts, outAcc \in PauseAccounts,
     amount_in \in SwapAmounts, e \in TopologyExecutors :
    LET feeAcc == Ata(Admin, AccMint[inAcc])
    IN  /\ SwapOutcome(signer, inAcc, outAcc, feeAcc, amount_in, 0, e)
             = SwapOutcome(signer, inAcc, outAcc, feeAcc, amount_in, 0, e)'
        /\ Committed(SwapOutcome(signer, inAcc, outAcc, feeAcc, amount_in, 0, e))
             = Committed(SwapOutcome(signer, inAcc, outAcc, feeAcc, amount_in, 0, e))'

\* the error of execute_swap out of the vault's base account in the current
\* state
LegacyError(signer, outAcc, amount_in, e) ==
  LegacySwapOutcome(signer, "vBase", outAcc, "pfBase", amount_in, 0, TRUE, e).err

\* C40 (as amended): vault.is_paused gates the legacy path only.  Across a
\* flip of the flag, execute_trader_swap with the same arguments and the
\* same executor behaviour gives the same result and the same post-state.
\* The legacy execute_swap, when its accounts validate and legacy trading is
\* enabled, fails with Paused in the state where the flag is set and does
\* not fail with Paused in the other; when legacy trading is disabled it
\* fails with LegacyTradingDisabled in both.  An execute_swap called on a
\* paused vault fails and changes nothing.
C40_PauseGatesLegacyOnly ==
  [][ /\ PauseFlipped =>
           /\ vault'.is_paused = ~vault.is_paused
           /\ UNCHANGED <<cfg, ts, bal, open, settledInLife, swaps>>
           /\ TraderSwapUnaffected
           /\ \A signer \in Signers, outAcc \in PauseLegacyOutAccounts,
                 amount_in \in SwapAmounts, e \in TopologyExecutors :
                IF LegacyAccountsError("vBase", outAcc, "pfBase") # "Ok"
                THEN /\ LegacyError(signer, outAcc, amount_in, e)
                          = LegacyAccountsError("vBase", outAcc, "pfBase")
                     /\ LegacyError(signer, outAcc, amount_in, e)'
                          = LegacyAccountsError("vBase", outAcc, "pfBase")
                ELSE IF ~cfg.legacy_trading_enabled
                THEN /\ LegacyError(signer, outAcc, amount_in, e) = "LegacyTradingDisabled"
                     /\ LegacyError(signer, outAcc, amount_in, e)' = "LegacyTradingDisabled"
                ELSE IF vault.is_paused
                THEN /\ LegacyError(signer, outAcc, amount_in, e) = "Paused"
                     /\ LegacyError(signer, outAcc, amount_in, e)' # "Paused"
                ELSE /\ LegacyError(signer, outAcc, amount_in, e) # "Paused"
                     /\ LegacyError(signer, outAcc, amount_in, e)' = "Paused"
      /\ (last'.op = "execute_swap" /\ vault.exists /\ vault.is_paused) =>
           /\ last'.err # "Ok"
           /\ UNCHANGED <<cfg, vault, ts, bal, open, settledInLife, swaps>>
           /\ (cfg.exists /\ cfg.legacy_trading_enabled
               /\ {"vBase", last'.outAcc} \subseteq open)
                => last'.err = "Paused"
    ]_vars

\* the authority's swap for a TraderState has succeeded on a vault whose
\* pause flag is set
C40_Witness ==
  /\ last.op = "execute_trader_swap" /\ last.err = "Ok"
  /\ vault.is_paused
  /\ last.amount_in = InitialFunds

\* C40 (as stated): across a flip of the flag execute_trader_swap is
\* unaffected, and every execute_swap whose accounts validate fails with
\* Paused when it is called on a vault whose flag is set.
C40_LegacyFailsWithPaused ==
  [][ /\ PauseFlipped => TraderSwapUnaffected
      /\ (last'.op = "execute_swap" /\ vault.exists /\ vault.is_paused
          /\ last'.stage # "accounts")
           => last'.err = "Paused"
    ]_vars

====
